---- MODULE Spec2Model ----
(***************************************************************************)
(* Verification model of the simob agent runtime:                          *)
(*   - the exporter's spool and flusher (internal/exporter),               *)
(*   - the PID lock file (internal/common/lockfile.go),                    *)
(*   - the AuthGuard (internal/authguard),                                 *)
(*   - the Agent supervisor and its workers (internal/manager, logs,       *)
(*     metrics).                                                           *)
(* Each part has its own specification over the shared variables; the      *)
(* variables of the other parts stay at their initial values.              *)
(***************************************************************************)
EXTENDS Integers, Sequences, FiniteSets, TLC

(***************************************************************************)
(* Part 1.  Exporter: spool file, producer, flusher                        *)
(* Time is counted in hours.  A spool line is a record                     *)
(*   [id |-> append sequence number, ts |-> timestamp, json |-> parses]    *)
(* json = FALSE stands for a line that unmarshal rejects (or a blank line);*)
(* both are skipped by flushOnce in the same way.                          *)
(***************************************************************************)
VARIABLES
    spool,      \* content of <spoolDir>/<stream>.jsonl, a sequence of lines
    now,        \* wall clock (hours)
    nextId,     \* append sequence number of the next record
    appended,   \* number of records appended so far (bounded)
    ectx,       \* Exporter.ctx: "live" or "done"
    fpc,        \* flusher goroutine: "wait", "flushAll", "send", "rewrite", "stopped"
    fFinal,     \* flushAll was entered from the ctx.Done() branch of startFlusher
    fLines,     \* flushOnce: lines as read from the spool file
    fToSend,    \* flushOnce: toSend, the POST body
    rwFails,    \* number of rewriteSpool failures so far (bounded)
    fErr,       \* the error the last flushOnce returned to flushAll: "none", "send", "rewrite"
    ackSeq,     \* number of POSTs the sink answered 204
    ackAt,      \* ackAt[i]: index of the first acknowledged POST holding record i, 0 if none
    dropped     \* ids removed from the spool as stale or corrupt

spoolVars == <<spool, now, nextId, appended, ectx, fpc, fFinal, fLines, fToSend, rwFails, fErr,
               ackSeq, ackAt, dropped>>

\* Variables of the single-instance lock (Part 2)
VARIABLES
    pidExists,  \* the PID file exists
    pidData,    \* its content, a sequence of digits
    lpc,        \* lpc[p]: where process p is
    lfd,        \* lfd[p]: "none", "open" (p's descriptor is the PID file), "unlinked" (the file was removed under it)
    lold,       \* lold[p]: oldPID as read by p
    alive,      \* alive[p]: process p exists in the OS process table
    lres,       \* lres[p]: what AcquireLock returned: "none", "nil", "already"
    solo,       \* solo[p]: no other process ran AcquireLock or ReleaseLock during p's call
    owner,      \* the process whose AcquireLock last returned nil undisturbed, 0 if none
    holder,     \* holder[p]: owner at the time p called AcquireLock
    lexit       \* lexit[p]: exit status of p's start command: "none", "0", "1"

lockVars == <<pidExists, pidData, lpc, lfd, lold, alive, lres, solo, owner, holder, lexit>>

\* Variables of the AuthGuard (Part 3)
VARIABLES
    errorCount, \* AuthGuard.errorCount
    sinceLast,  \* time.Since(AuthGuard.lastErrorTime), saturating above evaluationPeriod
    agpc,       \* "idle", or "blocked": a HandleUnauthorized call holds the mutex in its channel send
    keyCheckCh, \* number of signals buffered in keyCheckCh (capacity 1)
    fwd,        \* key-check forwarder goroutine: "waiting", "checking", "done", "hibernate"
    runLen,     \* unauthorized responses handled since the counter was last zero
    runSpan,    \* time since the first of them, saturating above evaluationPeriod
    runSignals, \* KeyCheck signals sent since then
    unhandled,  \* 401/403 responses not handed to HandleUnauthorized
    probeStatus \* HTTP outcome of the last CheckAPIKeyValidity call

authVars == <<errorCount, sinceLast, agpc, keyCheckCh, fwd, runLen, runSpan, runSignals, unhandled,
              probeStatus>>

\* Variables of the Agent supervisor and its workers (Part 4)
VARIABLES
    spc,        \* Agent.Run: "keycheck", "start", "select", "wait", "released", "hibernate", "exited"
    evt,        \* the event Run is handling while it waits for the workers
    ctrl,       \* the event buffered in ctrl (capacity 1), "none" if empty
    dryRun,     \* the --dry-run flag
    ctx,        \* context of the current scope: "none", "live", "done"
    lockHeld,   \* the PID lock file exists
    exitVia,    \* how the process ended: an event, "DryRun", "fatal", "panic"
    timer,      \* hibernate's timer: "off", "armed", "stopped"
    reloadCh,   \* values buffered in Agent.reloadCh (capacity 1)
    restartCh,  \* values buffered in Agent.restartCh (capacity 1)
    fw,         \* fw[f]: forwarder goroutine f of Run: "waiting", "sending", "done"
    wk,         \* wk[x]: worker x of the current scope
    drift,      \* the server's collection config differs from the one in use
    marker,     \* the restart file: "none", "stale" (older than the process), "fresh"
    fetchErr    \* err of the last GetCollectionConfig of startServices: "none", "transient", "persistent"

agentVars == <<spc, evt, ctrl, dryRun, ctx, lockHeld, exitVia, timer, reloadCh, restartCh,
               fw, wk, drift, marker, fetchErr>>

\* Variables of the spool file seen byte by byte (Part 5)
VARIABLES
    dFile,      \* the bytes of the spool file
    dCalls,     \* the payloads appendToSpool was called with, in call order
    dPending,   \* the write calls the running appendToSpool has still to issue
    dpc,        \* the producer: "idle", "opened" (inside appendToSpool), "crashed"
    dDone,      \* number of appendToSpool calls that returned nil
    dRead,      \* the lines the last flushOnce obtained from the file
    dSeen       \* dDone at the time of that read

durVars == <<dFile, dCalls, dPending, dpc, dDone, dRead, dSeen>>

\* Variables of one run of the self-updater (Part 6)
VARIABLES
    upc,         \* Update: "check", "download", "verify", "apply", "signal", "done", "failed"
    uApi,        \* the checksum in the server's answer to /updates/, trimmed
    uManifest,   \* the checksum the manifest lists for this binary, "" if none
    uExpected,   \* updateInfo.Checksum
    uNewFile,    \* content of the file at execPath + ".new", "absent" if none
    uTarget,     \* content of the file at the running binary's resolved path
    uDownloaded, \* the bytes this run received from the download URL, "none" before
    uRenamed,    \* os.Rename onto the target happened in this run
    uMarker,     \* the restart file was created by this run
    uCurrent,    \* version.Version of the running binary, a string of characters
    uVersion     \* updateInfo.Version, <<>> before the server answered

updVars == <<upc, uApi, uManifest, uExpected, uNewFile, uTarget, uDownloaded, uRenamed, uMarker,
             uCurrent, uVersion>>

\* Variables of the config hash comparison (Part 7)
VARIABLES
    cfgInitial,  \* the /configs/ document fetched at start, as received
    cfgNew,      \* the /configs/ document the watcher fetched last, as received
    initialHash, \* ConfigWatcher's hash of the initial config, <<>> before it is taken
    newHash      \* the hash of the config fetched last, <<>> before it is taken

hashVars == <<cfgInitial, cfgNew, initialHash, newHash>>

\* Variables of the log tailer and its positions file (Part 8)
VARIABLES
    tPath,      \* the path under which the tailed file is found by the glob
    tInode,     \* its inode
    tSize,      \* its size; every line is one byte long
    tpc,        \* the tail runner: "down", "running"
    tOffset,    \* offset of the tailer in the file (after the last line it emitted)
    positions,  \* TailRunner.positions: path -> PositionEntry, NoEntry if absent
    posFile,    \* the entries saved in positions.json
    tCount,     \* tCount[i]: times line i of the file's present content was emitted
    tCut,       \* the file was truncated since the runner was stopped last
    tStored,    \* Fingerprint.Size of the entry the runner wrote last for the file
    tCovered    \* every restart so far found the file unchanged, grown, or
                \* shrunk below the stored size

tailVars == <<tPath, tInode, tSize, tpc, tOffset, positions, posFile, tCount, tCut,
              tStored, tCovered>>

\* Variables of the metric filter (Part 9)
VARIABLES
    includedMetrics, \* BaseCollector.includedMetrics
    included,        \* SetIncludedMetrics was called
    dpName,          \* name of the data point a collector produced
    dpLabels,        \* its labels
    dpState          \* "pending", "emitted", "filtered"

filterVars == <<includedMetrics, included, dpName, dpLabels, dpState>>

\* Variables of the log pipeline (Part 10)
VARIABLES
    lgSize,     \* lgSize[r]: number of lines in the file that runner r tails
    rnpc,       \* rnpc[r]: TailRunner r: "new", "running", "stopped"
    rnOff,      \* rnOff[r]: t.Tell() of r's tailer, in lines
    rnPos,      \* rnPos[r]: r.positions, path -> offset, NoPos where the map has no entry
    posDoc,     \* positions.json: the set of entries it lists
    logsChan,   \* the entries buffered in logsChan, oldest first
    lspool,     \* the entries the consumer appended to the log spool
    pctx,       \* the context of the scope: "live", "done"
    cons        \* the consumer goroutine: "run", "done" (logsChan closed), "panic" (a send on the closed channel)

pipeVars == <<lgSize, rnpc, rnOff, rnPos, posDoc, logsChan, lspool, pctx, cons>>

\* Variables of rewriteSpool seen call by call (Part 11)
VARIABLES
    rsPath,     \* the lines of the file at the spool path
    rsTmpThere, \* path.tmp exists
    rsTmp,      \* the lines of path.tmp, <<>> when it does not exist
    rspc,       \* rewriteSpool: "idle", "write", "rename", "done", "failed"
    rsOld,      \* the lines at the spool path when the call began
    rsNew,      \* the lines the call was given
    rsCalls     \* number of rewriteSpool calls so far (bounded)

rewriteVars == <<rsPath, rsTmpThere, rsTmp, rspc, rsOld, rsNew, rsCalls>>

\* Variables of the CPU collector (Part 12)
VARIABLES
    cores,      \* number of cores the host reports now
    cpuTime,    \* cumulative time of every core so far
    lastStats,  \* CPUCollector.lastStats, <<>> for nil
    cpuErr,     \* error of the last Collect: "none", "nil", "times", "mismatch"
    cpuPoints,  \* the cores the last Collect returned points for, 0 for "all"
    seenCores   \* number of cores the previous successful cpu.Times reported, 0 if none
cpuVars == <<cores, cpuTime, lastStats, cpuErr, cpuPoints, seenCores>>

\* Variables of the ConfigWatcher's loop (Part 13)
VARIABLES
    cwHash,       \* ConfigWatcher.initialHash
    cwDuration,   \* run: currentTickDuration, the ticker's period in seconds
    cwpc,         \* run: "select", "sending" (in reloadCh <- true), "stopped"
    cwCfg,        \* the /configs/ document of the last successful fetch, at first the initial one
    cwFetched,    \* the last fetch: "none", "failed", "ok"
    cwReloadCh,   \* number of values buffered in reloadCh
    cwFwd,        \* Agent.Run's reload forwarder: "waiting", "done"
    cwCtx,        \* the scope's context: "live", "done"
    cwTicks       \* ticks handled so far (bounded)

watchVars == <<cwHash, cwDuration, cwpc, cwCfg, cwFetched, cwReloadCh, cwFwd, cwCtx, cwTicks>>

\* What the actions of one part leave alone
outsideSpool == <<lockVars, authVars, agentVars, durVars, updVars, hashVars, tailVars, filterVars, pipeVars, rewriteVars, cpuVars, watchVars>>
outsideLock == <<spoolVars, authVars, agentVars, durVars, updVars, hashVars, tailVars, filterVars, pipeVars, rewriteVars, cpuVars, watchVars>>
outsideAuth == <<spoolVars, lockVars, agentVars, durVars, updVars, hashVars, tailVars, filterVars, pipeVars, rewriteVars, cpuVars, watchVars>>
outsideAgent == <<spoolVars, lockVars, authVars, durVars, updVars, hashVars, tailVars, filterVars, pipeVars, rewriteVars, cpuVars, watchVars>>
outsideDurable == <<spoolVars, lockVars, authVars, agentVars, updVars, hashVars, tailVars, filterVars, pipeVars, rewriteVars, cpuVars, watchVars>>
outsideUpdate == <<spoolVars, lockVars, authVars, agentVars, durVars, hashVars, tailVars, filterVars, pipeVars, rewriteVars, cpuVars, watchVars>>
outsideHash == <<spoolVars, lockVars, authVars, agentVars, durVars, updVars, tailVars, filterVars, pipeVars, rewriteVars, cpuVars, watchVars>>
outsideTail == <<spoolVars, lockVars, authVars, agentVars, durVars, updVars, hashVars, filterVars, pipeVars, rewriteVars, cpuVars, watchVars>>
outsideFilter == <<spoolVars, lockVars, authVars, agentVars, durVars, updVars, hashVars, tailVars, pipeVars, rewriteVars, cpuVars, watchVars>>
outsidePipe == <<spoolVars, lockVars, authVars, agentVars, durVars, updVars, hashVars, tailVars, filterVars, rewriteVars, cpuVars, watchVars>>
outsideRewrite == <<spoolVars, lockVars, authVars, agentVars, durVars, updVars, hashVars, tailVars, filterVars, pipeVars, cpuVars, watchVars>>
outsideCpu == <<spoolVars, lockVars, authVars, agentVars, durVars, updVars, hashVars, tailVars, filterVars, pipeVars, rewriteVars, watchVars>>
outsideWatch == <<spoolVars, lockVars, authVars, agentVars, durVars, updVars, hashVars, tailVars, filterVars, pipeVars, rewriteVars, cpuVars>>

MaxBatchSize == 100
MaxAge == 24

\* Bounds of the model
MaxAppends == 2      \* records appended by the producers in one behaviour
MaxTicks == 1        \* hours the clock advances in one behaviour
MaxRewriteFails == 1 \* rewriteSpool failures in one behaviour
InitNow == 2 * MaxAge
LongSpool == MaxBatchSize + 1   \* length of the long initial spool (more than one batch)

MaxId == LongSpool + MaxAppends

Min(a, b) == IF a < b THEN a ELSE b

Rec(i, t, j) == [id |-> i, ts |-> t, json |-> j]

Ids(ls) == {ls[k].id : k \in 1..Len(ls)}

\* HTTP outcomes of a POST to the sink; 0 stands for a transport error
SinkStatuses == {204, 401, 503, 0}

\* sendPayload returns nil iff the response status is 204
sendPayloadOk(status) == status = 204

\* Mutant: the batch is the whole file
batchSize_whole(ls) == Len(ls)

\* flushOnce: batchSize := min(len(lines), MaxBatchSize)
batchSize(ls) == Min(Len(ls), MaxBatchSize)

\* flushOnce: rawBatch := lines[:batchSize]
rawBatch(ls) == SubSeq(ls, 1, batchSize(ls))

\* flushOnce: cutoff := time.Now().Add(-MaxAge)
cutoff(t) == t - MaxAge

Reverse(s) == [k \in 1..Len(s) |-> s[Len(s) + 1 - k]]

\* Mutant: the batch is built newest-first
toSendOf_newestFirst(ls, t) ==
    Reverse(SelectSeq(SubSeq(ls, 1, Min(Len(ls), MaxBatchSize)),
                      LAMBDA r : r.json /\ ~(r.ts < t - MaxAge)))

\* Mutant: the stale check is left out
toSendOf_keepStale(ls, t) == SelectSeq(SubSeq(ls, 1, Min(Len(ls), MaxBatchSize)), LAMBDA r : r.json)

\* flushOnce: the loop that builds toSend from rawBatch
toSendOf(ls, t) ==
    SelectSeq(rawBatch(ls), LAMBDA r : r.json /\ ~(r.ts < cutoff(t)))

\* flushOnce: keepLines := lines[batchSize:]
keepLinesOf(ls) == SubSeq(ls, batchSize(ls) + 1, Len(ls))

\* Mutant: the error path of flushOnce truncates like the success path
spoolAfterSendError_truncated(file, lines) == keepLinesOf(lines)

\* flushOnce: a sendPayload error returns before rewriteSpool is reached, so
\* the file stays as it is
spoolAfterSendError(file, lines) == file

\* appendToSpool: one O_APPEND write of the record and a newline
appendLine(file, r) == Append(file, r)

\* rewriteSpool: the content that replaces the spool on a successful rename
rewriteContent(keep) == keep

\* Spools the agent can find at start: empty, short ones holding a stale
\* and a corrupt line left by an earlier run, and one longer than a batch.
InitSpools ==
    { <<>>,
      << Rec(1, InitNow - MaxAge - 1, TRUE), Rec(2, InitNow, TRUE) >>,
      << Rec(1, InitNow, FALSE), Rec(2, InitNow - MaxAge, TRUE) >>,
      [k \in 1..LongSpool |-> Rec(k, InitNow, TRUE)] }

SpoolInit ==
    /\ spool \in InitSpools
    /\ now = InitNow
    /\ nextId = Len(spool) + 1
    /\ appended = 0
    /\ ectx = "live"
    /\ fpc = "wait"
    /\ fFinal = FALSE
    /\ fLines = <<>>
    /\ fToSend = <<>>
    /\ rwFails = 0
    /\ fErr = "none"
    /\ ackSeq = 0
    /\ ackAt = [i \in 1..MaxId |-> 0]
    /\ dropped = {}

\* Exporter.appendToSpool, called by ExportMetric / ExportLog for each payload.
\* Metric points carry the collection time; log lines carry their own
\* timestamp, which can be older.
AppendToSpool ==
    /\ appended < MaxAppends
    /\ appended' = appended + 1
    /\ \E t \in {now, now - MaxAge} :
         spool' = appendLine(spool, Rec(nextId, t, TRUE))
    /\ nextId' = nextId + 1
    /\ UNCHANGED <<now, ectx, fpc, fFinal, fLines, fToSend, rwFails, ackSeq, ackAt, dropped>>
    /\ UNCHANGED fErr
    /\ UNCHANGED outsideSpool

ClockTick ==
    /\ now < InitNow + MaxTicks
    /\ now' = now + 1
    /\ UNCHANGED <<spool, nextId, appended, ectx, fpc, fFinal, fLines, fToSend, rwFails, ackSeq, ackAt, dropped>>
    /\ UNCHANGED fErr
    /\ UNCHANGED outsideSpool

\* startFlusher: case <-ticker.C: e.flushAll(...)
FlusherTick ==
    /\ fpc = "wait"
    /\ fpc' = "flushAll"
    /\ fFinal' = FALSE
    /\ UNCHANGED <<spool, now, nextId, appended, ectx, fLines, fToSend, rwFails, ackSeq, ackAt, dropped>>
    /\ UNCHANGED fErr
    /\ UNCHANGED outsideSpool

\* startFlusher: case <-e.ctx.Done(): e.flushAll(...); return
FlusherCtxDone ==
    /\ fpc = "wait"
    /\ ectx = "done"
    /\ fpc' = "flushAll"
    /\ fFinal' = TRUE
    /\ UNCHANGED <<spool, now, nextId, appended, ectx, fLines, fToSend, rwFails, ackSeq, ackAt, dropped>>
    /\ UNCHANGED fErr
    /\ UNCHANGED outsideSpool

\* Where flushAll returns to: the select of startFlusher, or its return
flushAllReturn == IF fFinal THEN "stopped" ELSE "wait"

\* flushAll: select { case <-e.ctx.Done(): return; default: }
FlushAllCancelled ==
    /\ fpc = "flushAll"
    /\ ectx = "done"
    /\ fpc' = flushAllReturn
    /\ UNCHANGED <<spool, now, nextId, appended, ectx, fFinal, fLines, fToSend, rwFails, ackSeq, ackAt, dropped>>
    /\ UNCHANGED fErr
    /\ UNCHANGED outsideSpool

\* flushOnce up to the decision to send: read the whole file, build the batch.
\* A missing file reads like an empty one (both return false, nil).
FlushOnceRead ==
    /\ fpc = "flushAll"
    /\ ectx = "live"
    /\ IF Len(spool) = 0
       THEN /\ fpc' = flushAllReturn
            /\ fLines' = <<>>
            /\ fToSend' = <<>>
       ELSE /\ fLines' = spool
            /\ fToSend' = toSendOf(spool, now)
            /\ fpc' = IF Len(toSendOf(spool, now)) > 0 THEN "send" ELSE "rewrite"
    /\ fErr' = "none"
    /\ UNCHANGED <<spool, now, nextId, appended, ectx, fFinal, rwFails, ackSeq, ackAt, dropped>>
    /\ UNCHANGED outsideSpool

\* flushOnce: e.sendPayload(url, toSend) and the sink's answer
FlushOnceSend ==
    /\ fpc = "send"
    /\ \E status \in SinkStatuses :
         IF sendPayloadOk(status)
         THEN /\ fpc' = "rewrite"
              /\ UNCHANGED <<spool, fLines, fToSend, fErr>>
              /\ ackSeq' = ackSeq + 1
              /\ ackAt' = [i \in 1..MaxId |->
                             IF i \in Ids(fToSend) /\ ackAt[i] = 0
                             THEN ackSeq + 1 ELSE ackAt[i]]
         ELSE /\ fpc' = flushAllReturn
              /\ fErr' = "send"
              /\ spool' = spoolAfterSendError(spool, fLines)
              /\ fLines' = <<>>
              /\ fToSend' = <<>>
              /\ UNCHANGED <<ackSeq, ackAt>>
    /\ UNCHANGED <<now, nextId, appended, ectx, fFinal, rwFails, dropped>>
    /\ UNCHANGED outsideSpool

\* Mutant: flushOnce never reports more entries, flushAll stops after one batch
hasMoreEntries_never(keep) == FALSE

\* flushOnce: return len(keepLines) > 0, nil
hasMoreEntries(keep) == Len(keep) > 0

\* flushOnce: e.rewriteSpool(spoolFile, keepLines) and the return value.
\* rewriteSpool fails when the temp file cannot be written or renamed.
FlushOnceRewrite ==
    /\ fpc = "rewrite"
    /\ \/ /\ spool' = rewriteContent(keepLinesOf(fLines))
          /\ dropped' = dropped \cup (Ids(rawBatch(fLines)) \ Ids(fToSend))
          /\ fpc' = IF hasMoreEntries(keepLinesOf(fLines)) THEN "flushAll" ELSE flushAllReturn
          /\ fErr' = "none"
          /\ UNCHANGED rwFails
       \/ /\ rwFails < MaxRewriteFails
          /\ rwFails' = rwFails + 1
          /\ fpc' = flushAllReturn
          /\ fErr' = "rewrite"
          /\ UNCHANGED <<spool, dropped>>
    /\ fLines' = <<>>
    /\ fToSend' = <<>>
    /\ UNCHANGED <<now, nextId, appended, ectx, fFinal, ackSeq, ackAt>>
    /\ UNCHANGED outsideSpool

\* Exporter.Close: e.cancel()
ExporterCancel ==
    /\ ectx = "live"
    /\ ectx' = "done"
    /\ UNCHANGED <<spool, now, nextId, appended, fpc, fFinal, fLines, fToSend, rwFails, ackSeq, ackAt, dropped>>
    /\ UNCHANGED fErr
    /\ UNCHANGED outsideSpool

\* NewExporter after the previous exporter was closed and its flusher joined
\* (a Reload, or the end of a hibernation)
NewExporter ==
    /\ fpc = "stopped"
    /\ ectx' = "live"
    /\ fpc' = "wait"
    /\ fFinal' = FALSE
    /\ UNCHANGED <<spool, now, nextId, appended, fLines, fToSend, rwFails, ackSeq, ackAt, dropped>>
    /\ UNCHANGED fErr
    /\ UNCHANGED outsideSpool

SpoolNext ==
    \/ AppendToSpool
    \/ ClockTick
    \/ FlusherTick
    \/ FlusherCtxDone
    \/ FlushAllCancelled
    \/ FlushOnceRead
    \/ FlushOnceSend
    \/ FlushOnceRewrite
    \/ ExporterCancel
    \/ NewExporter


(***************************************************************************)
(* Part 2.  Single-instance lock: the PID file                             *)
(* The file content is a sequence of decimal digits.  Every process runs   *)
(* AcquireLock once, step by step (exclusive create, read PID, liveness    *)
(* probe, truncate, write).  A process can be killed at any point.         *)
(***************************************************************************)

NumProcs == 3
Procs == 1..NumProcs

\* os.Getpid() of the modelled processes: 4, 12, 36, 108, ...
PidOf(p) == 4 * 3 ^ (p - 1)

\* A PID no live process has (left in the file by an earlier run)
StalePid == PidOf(NumProcs + 2)

\* The PID of a live agent that another user started: this user may not
\* probe it
ForeignPid == PidOf(NumProcs + 1)

RECURSIVE Itoa(_)
\* strconv.Itoa for n >= 0
Itoa(n) == IF n < 10 THEN <<n>> ELSE Append(Itoa(n \div 10), n % 10)

RECURSIVE AtoiVal(_)
AtoiVal(s) == IF Len(s) = 0 THEN 0
              ELSE 10 * AtoiVal(SubSeq(s, 1, Len(s) - 1)) + s[Len(s)]

\* strconv.Atoi fails on the empty string
AtoiFails(s) == Len(s) = 0

\* File.WriteString on a descriptor at offset 0: the bytes replace the head
\* of the file and whatever lies beyond them stays
WriteAtZero(data, bytes) ==
    bytes \o SubSeq(data, Len(bytes) + 1, Len(data))

\* process.PidExists(pid): (exist, err).  The probe of a process of another
\* user fails with permission-denied.
PidExists(pid) ==
    IF pid = ForeignPid
    THEN [exist |-> FALSE, err |-> "EPERM"]
    ELSE [exist |-> \E q \in Procs : alive[q] /\ PidOf(q) = pid, err |-> "nil"]

\* Mutant: the liveness probe never reports a running process
isProcessRunning_never(pid) == FALSE

\* isProcessRunning: exist, err := process.PidExists(pid);
\* if err != nil { return false }; return exist
isProcessRunning(pid) ==
    IF PidExists(pid).err # "nil" THEN FALSE ELSE PidExists(pid).exist

\* IsLockAcquired: the PID file exists, holds a PID, and that process runs
IsLockAcquired ==
    IF ~pidExists THEN FALSE
    ELSE IF AtoiFails(pidData) THEN FALSE
    ELSE AtoiVal(pidData) > 0 /\ isProcessRunning(AtoiVal(pidData))

InCall(p) == lpc[p] \in {"create", "read", "probe", "trunc", "write"}

LockInit ==
    /\ \/ pidExists = FALSE /\ pidData = <<>>
       \/ pidExists = TRUE /\ pidData = Itoa(StalePid)
       \/ pidExists = TRUE /\ pidData = Itoa(ForeignPid)
       \/ pidExists = TRUE /\ pidData = <<>>
    /\ lpc = [p \in Procs |-> "idle"]
    /\ lfd = [p \in Procs |-> "none"]
    /\ lold = [p \in Procs |-> 0]
    /\ alive = [p \in Procs |-> FALSE]
    /\ lres = [p \in Procs |-> "none"]
    /\ solo = [p \in Procs |-> FALSE]
    /\ owner = 0
    /\ holder = [p \in Procs |-> 0]
    /\ lexit = [p \in Procs |-> "none"]

\* The start command is launched and calls AcquireLock
LockStart(p) ==
    /\ lpc[p] = "idle"
    /\ lpc' = [lpc EXCEPT ![p] = "create"]
    /\ alive' = [alive EXCEPT ![p] = TRUE]
    /\ solo' = [q \in Procs |->
                  IF q = p THEN \A r \in Procs \ {p} : ~InCall(r)
                  ELSE IF InCall(q) THEN FALSE ELSE solo[q]]
    /\ holder' = [holder EXCEPT ![p] = owner]
    /\ UNCHANGED <<pidExists, pidData, lfd, lold, lres, owner, lexit>>
    /\ UNCHANGED outsideLock

\* AcquireLock: os.OpenFile(pidFilepath, O_CREATE|O_EXCL|O_WRONLY)
LockCreate(p) ==
    /\ lpc[p] = "create"
    /\ IF pidExists
       THEN /\ lpc' = [lpc EXCEPT ![p] = "read"]
            /\ UNCHANGED <<pidExists, pidData, lfd>>
       ELSE /\ pidExists' = TRUE
            /\ pidData' = <<>>
            /\ lfd' = [lfd EXCEPT ![p] = "open"]
            /\ lpc' = [lpc EXCEPT ![p] = "write"]
    /\ UNCHANGED <<lold, alive, lres, solo, owner, holder, lexit>>
    /\ UNCHANGED outsideLock

\* AcquireLock: oldPID, err := readPID(); on an error the file is overwritten
LockRead(p) ==
    /\ lpc[p] = "read"
    /\ IF ~pidExists \/ AtoiFails(pidData)
       THEN /\ lpc' = [lpc EXCEPT ![p] = "trunc"]
            /\ UNCHANGED lold
       ELSE /\ lold' = [lold EXCEPT ![p] = AtoiVal(pidData)]
            /\ lpc' = [lpc EXCEPT ![p] = "probe"]
    /\ UNCHANGED <<pidExists, pidData, lfd, alive, lres, solo, owner, holder, lexit>>
    /\ UNCHANGED outsideLock

\* AcquireLock: if oldPID > 0 && isProcessRunning(oldPID) { return ErrAlreadyRunning }
LockProbe(p) ==
    /\ lpc[p] = "probe"
    /\ IF lold[p] > 0 /\ isProcessRunning(lold[p])
       THEN /\ lpc' = [lpc EXCEPT ![p] = "refused"]
            /\ lres' = [lres EXCEPT ![p] = "already"]
       ELSE /\ lpc' = [lpc EXCEPT ![p] = "trunc"]
            /\ UNCHANGED lres
    /\ UNCHANGED <<pidExists, pidData, lfd, lold, alive, solo, owner, holder, lexit>>
    /\ UNCHANGED outsideLock

\* overwritePIDFile: os.OpenFile(pidFilePath, O_CREATE|O_TRUNC|O_WRONLY)
LockTruncate(p) ==
    /\ lpc[p] = "trunc"
    /\ pidExists' = TRUE
    /\ pidData' = <<>>
    /\ lfd' = [lfd EXCEPT ![p] = "open"]
    /\ lpc' = [lpc EXCEPT ![p] = "write"]
    /\ UNCHANGED <<lold, alive, lres, solo, owner, holder, lexit>>
    /\ UNCHANGED outsideLock

\* file.WriteString(strconv.Itoa(currentPID)); return nil.  A write through
\* a descriptor whose file was removed meanwhile goes to the unlinked inode.
LockWrite(p) ==
    /\ lpc[p] = "write"
    /\ IF lfd[p] = "open"
       THEN pidData' = WriteAtZero(pidData, Itoa(PidOf(p)))
       ELSE UNCHANGED pidData
    /\ lfd' = [lfd EXCEPT ![p] = "none"]
    /\ lpc' = [lpc EXCEPT ![p] = "held"]
    /\ lres' = [lres EXCEPT ![p] = "nil"]
    /\ owner' = IF solo[p] THEN p ELSE 0
    /\ UNCHANGED <<pidExists, lold, alive, solo, holder, lexit>>
    /\ UNCHANGED outsideLock

\* ReleaseLock: os.Remove(pidFilepath), followed by the exit of the process
LockRelease(p) ==
    /\ lpc[p] = "held"
    /\ pidExists' = FALSE
    /\ pidData' = <<>>
    /\ lfd' = [q \in Procs |-> IF lfd[q] = "open" THEN "unlinked" ELSE lfd[q]]
    /\ lpc' = [lpc EXCEPT ![p] = "dead"]
    /\ alive' = [alive EXCEPT ![p] = FALSE]
    /\ owner' = 0
    /\ solo' = [q \in Procs |-> IF InCall(q) /\ q # p THEN FALSE ELSE solo[q]]
    /\ UNCHANGED <<lold, lres, holder, lexit>>
    /\ UNCHANGED outsideLock

\* Start: if err != nil { os.Exit(1) }, whatever error
\* initializeAndLoadAgent returned
startExitStatus(res) == IF res = "nil" THEN "none" ELSE "1"

\* Start: on ErrAlreadyRunning the process exits without touching the file
LockRefusedExit(p) ==
    /\ lpc[p] = "refused"
    /\ lpc' = [lpc EXCEPT ![p] = "dead"]
    /\ alive' = [alive EXCEPT ![p] = FALSE]
    /\ lold' = [lold EXCEPT ![p] = 0]
    /\ lexit' = [lexit EXCEPT ![p] = startExitStatus(lres[p])]
    /\ UNCHANGED <<pidExists, pidData, lfd, lres, solo, owner, holder>>
    /\ UNCHANGED outsideLock

\* The process is killed (SIGKILL, power loss): no file is removed
LockKill(p) ==
    /\ alive[p]
    /\ lpc' = [lpc EXCEPT ![p] = "dead"]
    /\ alive' = [alive EXCEPT ![p] = FALSE]
    /\ lfd' = [lfd EXCEPT ![p] = "none"]
    /\ lold' = [lold EXCEPT ![p] = 0]
    /\ UNCHANGED <<pidExists, pidData, lres, solo, owner, holder, lexit>>
    /\ UNCHANGED outsideLock

LockNext ==
    \E p \in Procs :
        \/ LockStart(p)
        \/ LockCreate(p)
        \/ LockRead(p)
        \/ LockProbe(p)
        \/ LockTruncate(p)
        \/ LockWrite(p)
        \/ LockRelease(p)
        \/ LockRefusedExit(p)
        \/ LockKill(p)

(***************************************************************************)
(* Part 3.  AuthGuard and the HTTP layers that feed it                     *)
(* Time is counted in seconds.  The control endpoint is reached through    *)
(* api.Client (get / post); the sinks are reached through                  *)
(* Exporter.sendPayload.  The key-check forwarder is the goroutine that    *)
(* Agent.Run starts on keyCheckCh.                                         *)
(***************************************************************************)
errorThreshold == 10
evaluationPeriod == 60

\* Bounds of the model
MaxUnhandled == 2    \* unauthorized sink responses counted in one behaviour

TimeStep == evaluationPeriod \div errorThreshold
TimeSat == evaluationPeriod + 1
KeyCheckCap == 1

\* HTTP outcomes of a request to the control endpoint; 0 is a transport error
ControlStatuses == {200, 401, 403, 500, 0}

\* client.get / client.post: which responses are handed to the AuthGuard
clientCallsGuard(status) == status = 401 \/ status = 403

\* Exporter.sendPayload: the status is only compared with 204
sendPayloadCallsGuard(status) == FALSE

\* HandleUnauthorized: the counter after the window reset and the increment
countAfter(c, since) == (IF since > evaluationPeriod THEN 0 ELSE c) + 1

AuthInit ==
    /\ errorCount = 0
    /\ sinceLast = TimeSat
    /\ agpc = "idle"
    /\ keyCheckCh = 0
    /\ fwd = "waiting"
    /\ runLen = 0
    /\ runSpan = 0
    /\ runSignals = 0
    /\ unhandled = 0
    /\ probeStatus \in {st \in ControlStatuses : st >= 200 /\ st < 300}

\* Run validates the key once before anything else and exits unless that
\* call succeeds: probeStatus starts as a 2xx status.

\* The body of HandleUnauthorized, run under ag.mutex.  When the threshold
\* is reached the signal is sent on keyCheckCh; with the buffer full the
\* send blocks and the call keeps the mutex.
HandleUnauthorizedBody ==
    /\ agpc = "idle"
    /\ sinceLast' = 0
    /\ runLen' = IF errorCount = 0 THEN 1 ELSE Min(runLen + 1, errorThreshold + 1)
    /\ runSpan' = IF errorCount = 0 THEN 0 ELSE runSpan
    /\ LET c == countAfter(errorCount, sinceLast)
           fresh == IF errorCount = 0 THEN 0 ELSE runSignals
       IN  IF c >= errorThreshold
           THEN IF keyCheckCh < KeyCheckCap
                THEN /\ keyCheckCh' = keyCheckCh + 1
                     /\ errorCount' = 0
                     /\ runSignals' = fresh + 1
                     /\ agpc' = "idle"
                ELSE /\ agpc' = "blocked"
                     /\ errorCount' = c
                     /\ runSignals' = fresh
                     /\ UNCHANGED keyCheckCh
           ELSE /\ errorCount' = c
                /\ runSignals' = fresh
                /\ UNCHANGED <<agpc, keyCheckCh>>

\* A response of the control endpoint seen by client.get / client.post
\* (ConfigWatcher's GetCollectionConfig, PostHostInfo).
ControlResponse ==
    /\ \E status \in ControlStatuses :
         IF clientCallsGuard(status)
         THEN HandleUnauthorizedBody
         ELSE UNCHANGED <<errorCount, sinceLast, agpc, keyCheckCh, runLen, runSpan, runSignals>>
    /\ UNCHANGED <<fwd, unhandled, probeStatus>>
    /\ UNCHANGED outsideAuth

\* A response of a sink seen by Exporter.sendPayload.
SinkResponse ==
    /\ \E status \in SinkStatuses :
         IF sendPayloadCallsGuard(status)
         THEN HandleUnauthorizedBody /\ UNCHANGED unhandled
         ELSE /\ UNCHANGED <<errorCount, sinceLast, agpc, keyCheckCh, runLen, runSpan, runSignals>>
              /\ IF status \in {401, 403}
                 THEN unhandled < MaxUnhandled /\ unhandled' = unhandled + 1
                 ELSE UNCHANGED unhandled
    /\ UNCHANGED <<fwd, probeStatus>>
    /\ UNCHANGED outsideAuth

\* Agent.Run's forwarder: <-keyCheckCh (received once).  A sender blocked
\* on the full buffer is released by the receive: its signal takes the
\* freed slot and HandleUnauthorized goes on to reset the counter.
KeyCheckReceive ==
    /\ fwd = "waiting"
    /\ keyCheckCh > 0
    /\ fwd' = "checking"
    /\ IF agpc = "blocked"
       THEN /\ agpc' = "idle"
            /\ errorCount' = 0
            /\ runSignals' = runSignals + 1
            /\ UNCHANGED keyCheckCh
       ELSE /\ keyCheckCh' = keyCheckCh - 1
            /\ UNCHANGED <<agpc, errorCount, runSignals>>
    /\ UNCHANGED <<sinceLast, runLen, runSpan, unhandled, probeStatus>>
    /\ UNCHANGED outsideAuth

\* Agent.Run's forwarder: CheckAPIKeyValidity, then Hibernate if rejected.
\* The probe is a client.post, so its own 401/403 goes to the AuthGuard.
KeyCheckProbe ==
    /\ fwd = "checking"
    /\ \E status \in ControlStatuses :
         /\ IF clientCallsGuard(status)
            THEN HandleUnauthorizedBody
            ELSE UNCHANGED <<errorCount, sinceLast, agpc, keyCheckCh, runLen, runSpan, runSignals>>
         /\ fwd' = IF status >= 200 /\ status < 300 THEN "done" ELSE "hibernate"
         /\ probeStatus' = status
    /\ UNCHANGED unhandled
    /\ UNCHANGED outsideAuth

\* Time passes
AuthElapse ==
    /\ sinceLast' = Min(TimeSat, sinceLast + TimeStep)
    /\ runSpan' = Min(TimeSat, runSpan + TimeStep)
    /\ sinceLast' # sinceLast \/ runSpan' # runSpan
    /\ UNCHANGED <<errorCount, agpc, keyCheckCh, fwd, runLen, runSignals, unhandled, probeStatus>>
    /\ UNCHANGED outsideAuth

AuthNext ==
    \/ ControlResponse
    \/ SinkResponse
    \/ KeyCheckReceive
    \/ KeyCheckProbe
    \/ AuthElapse

(***************************************************************************)
(* Part 4.  Agent supervisor (manager.Agent.Run), its event forwarders,    *)
(* the watchers and the collection workers of one service scope.           *)
(* The process holds the PID lock when Run starts.  When the process ends  *)
(* its goroutines and channels end with it.  A watcher or consumer left    *)
(* over from an earlier scope is not followed once startServices has built *)
(* the next scope.                                                         *)
(***************************************************************************)
ControlEvents == {"Shutdown", "Reload", "Restart", "Hibernate"}
Forwarders == {"sig", "reload", "restart", "key"}
JoinedWorkers == {"logs", "metrics"}
Workers == {"logs", "metrics", "flusher", "consumer", "journal", "cw", "rw"}

\* What each forwarder goroutine of Run sends on ctrl
eventOf(f) ==
    CASE f = "sig" -> "Shutdown"
      [] f = "reload" -> "Reload"
      [] f = "restart" -> "Restart"
      [] f = "key" -> "Hibernate"

Alive == spc # "exited"

Stopped(x) == wk[x] \in {"off", "done"}

\* Mutant: the logs worker is not counted in the WaitGroup
wgZero_metricsOnly == Stopped("metrics")

\* a.wg.Wait() returns
wgZero == \A x \in JoinedWorkers : Stopped(x)

\* the consumer goroutine closes logsChan just before it returns
logsChanClosed == wk["consumer"] = "done"

AgentInit ==
    /\ spc = "keycheck"
    /\ evt = "none"
    /\ ctrl = "none"
    /\ dryRun \in BOOLEAN
    /\ ctx = "none"
    /\ lockHeld = TRUE
    /\ exitVia = "none"
    /\ timer = "off"
    /\ reloadCh = 0
    /\ restartCh = 0
    /\ fw = [f \in Forwarders |-> "waiting"]
    /\ wk = [x \in Workers |-> "off"]
    /\ drift = FALSE
    /\ marker \in {"none", "stale"}
    /\ fetchErr = "none"

\* The process ends (return from Run, os.Exit, or a panic): goroutines,
\* channels, context and timer are gone; the files stay as they are.
processEnds(how) ==
    /\ spc' = "exited"
    /\ exitVia' = how
    /\ evt' = "none"
    /\ ctrl' = "none"
    /\ ctx' = "none"
    /\ timer' = "off"
    /\ reloadCh' = 0
    /\ restartCh' = 0
    /\ fw' = [f \in Forwarders |-> "done"]
    /\ wk' = [x \in Workers |-> "off"]

\* Run: initial key validation; os.Exit(1) when it fails
InitialKeyCheck ==
    /\ spc = "keycheck"
    /\ \E valid \in BOOLEAN :
         IF valid
         THEN /\ spc' = "start"
              /\ UNCHANGED <<exitVia, evt, ctrl, ctx, timer, reloadCh, restartCh, fw, wk>>
         ELSE processEnds("fatal")
    /\ UNCHANGED <<dryRun, lockHeld, drift, marker>>
    /\ UNCHANGED fetchErr
    /\ UNCHANGED outsideAgent

\* Client.GetCollectionConfig: the outcomes of one call.  A transient failure
\* is one that the next call would not meet.
FetchOutcomes == {"ok", "transient", "persistent"}

\* Run: a new context, then startServices: fetch the collection config
\* (os.Exit(1) on error), start the ConfigWatcher (not in a dry run) and the
\* RestartWatcher (whose Start first deletes the restart file), create the
\* exporter (os.Exit(1) on error) with its flushers, start logs collection
\* (with its consumer and, if configured, the journal reader) and metrics
\* collection.
StartServices ==
    /\ spc = "start"
    /\ \E outcome \in FetchOutcomes, exporterOk \in BOOLEAN, withJournal \in BOOLEAN :
         /\ fetchErr' = IF outcome = "ok" THEN "none" ELSE outcome
         /\ IF outcome # "ok"
            THEN processEnds("fatal") /\ UNCHANGED <<drift, marker>>
            ELSE /\ drift' = FALSE
                 /\ marker' = "none"
                 /\ IF ~exporterOk
                    THEN processEnds("fatal")
                    ELSE /\ spc' = "select"
                         /\ ctx' = "live"
                         /\ wk' = [x \in Workers |->
                                     CASE x = "cw" -> IF dryRun THEN "off" ELSE "run"
                                       [] x = "journal" -> IF withJournal THEN "waiting" ELSE "off"
                                       [] OTHER -> "run"]
                         /\ UNCHANGED <<exitVia, evt, ctrl, timer, reloadCh, restartCh, fw>>
    /\ UNCHANGED <<dryRun, lockHeld>>
    /\ UNCHANGED outsideAgent

\* Run: case evt := <-ctrl, then cancel()
SelectEvent ==
    /\ spc = "select"
    /\ ctrl # "none"
    /\ evt' = ctrl
    /\ ctrl' = "none"
    /\ ctx' = "done"
    /\ spc' = "wait"
    /\ UNCHANGED <<dryRun, lockHeld, exitVia, timer, reloadCh,
                   restartCh, fw, wk, drift, marker>>
    /\ UNCHANGED fetchErr
    /\ UNCHANGED outsideAgent

\* The 20 s timeout of the dry-run context expires
DryRunTimeout ==
    /\ Alive
    /\ dryRun
    /\ ctx = "live"
    /\ ctx' = "done"
    /\ UNCHANGED <<spc, evt, ctrl, dryRun, lockHeld, exitVia,
                   timer, reloadCh, restartCh, fw, wk, drift, marker>>
    /\ UNCHANGED fetchErr
    /\ UNCHANGED outsideAgent

\* Run: case <-ctx.Done() in a dry run, then cancel()
SelectCtxDone ==
    /\ spc = "select"
    /\ dryRun
    /\ ctx = "done"
    /\ evt' = "DryRun"
    /\ spc' = "wait"
    /\ UNCHANGED <<ctrl, dryRun, ctx, lockHeld, exitVia, timer,
                   reloadCh, restartCh, fw, wk, drift, marker>>
    /\ UNCHANGED fetchErr
    /\ UNCHANGED outsideAgent

\* Run: a.wg.Wait() returns.  Shutdown, Restart and the end of a dry run call
\* ReleaseLock; Reload goes round the loop; Hibernate calls hibernate().
WaitReturns ==
    /\ spc = "wait"
    /\ wgZero
    /\ CASE evt \in {"Shutdown", "Restart", "DryRun"} ->
              /\ lockHeld' = FALSE
              /\ spc' = "released"
              /\ UNCHANGED <<timer, evt>>
         [] evt = "Reload" ->
              /\ spc' = "start"
              /\ evt' = "none"
              /\ UNCHANGED <<lockHeld, timer>>
         [] evt = "Hibernate" ->
              /\ spc' = "hibernate"
              /\ evt' = "none"
              /\ timer' = "armed"
              /\ UNCHANGED lockHeld
    /\ UNCHANGED <<ctrl, dryRun, ctx, exitVia, reloadCh, restartCh, fw, wk, drift, marker>>
    /\ UNCHANGED fetchErr
    /\ UNCHANGED outsideAgent

\* Run: return (Shutdown, dry run) or os.Exit(1) (Restart) after ReleaseLock
ExitAfterRelease ==
    /\ spc = "released"
    /\ processEnds(evt)
    /\ UNCHANGED <<dryRun, lockHeld, drift, marker>>
    /\ UNCHANGED fetchErr
    /\ UNCHANGED outsideAgent

\* hibernate: case <-timer.C, return false
HibernateTimer ==
    /\ spc = "hibernate"
    /\ timer = "armed"
    /\ spc' = "start"
    /\ timer' = "off"
    /\ UNCHANGED <<evt, ctrl, dryRun, ctx, lockHeld, exitVia,
                   reloadCh, restartCh, fw, wk, drift, marker>>
    /\ UNCHANGED fetchErr
    /\ UNCHANGED outsideAgent

\* hibernate: case evt := <-ctrl, timer.Stop(), then the switch: Shutdown
\* returns true (Run returns), Restart calls os.Exit(1), Reload returns
\* false, any other event goes round the loop with the timer stopped.
HibernateEvent ==
    /\ spc = "hibernate"
    /\ ctrl # "none"
    /\ CASE ctrl \in {"Shutdown", "Restart"} ->
              processEnds(ctrl)
         [] ctrl = "Reload" ->
              /\ spc' = "start"
              /\ timer' = "off"
              /\ ctrl' = "none"
              /\ UNCHANGED <<exitVia, evt, ctx, reloadCh, restartCh, fw, wk>>
         [] ctrl = "Hibernate" ->
              /\ timer' = "stopped"
              /\ ctrl' = "none"
              /\ UNCHANGED <<spc, exitVia, evt, ctx, reloadCh, restartCh, fw, wk>>
    /\ UNCHANGED <<dryRun, lockHeld, drift, marker>>
    /\ UNCHANGED fetchErr
    /\ UNCHANGED outsideAgent

\* The OS delivers SIGINT or SIGTERM: signal.Notify hands it to the
\* goroutine of Run that waits on s (later signals stay in s unread).
Signal ==
    /\ Alive
    /\ fw["sig"] = "waiting"
    /\ fw' = [fw EXCEPT !["sig"] = "sending"]
    /\ UNCHANGED <<spc, evt, ctrl, dryRun, ctx, lockHeld,
                   exitVia, timer, reloadCh, restartCh, wk, drift, marker>>
    /\ UNCHANGED fetchErr
    /\ UNCHANGED outsideAgent

\* A forwarder goroutine of Run receives from its source channel (once)
ForwarderReceive(f) ==
    /\ Alive
    /\ f \in {"reload", "restart"}
    /\ fw[f] = "waiting"
    /\ IF f = "reload"
       THEN reloadCh = 1 /\ reloadCh' = 0 /\ UNCHANGED restartCh
       ELSE restartCh = 1 /\ restartCh' = 0 /\ UNCHANGED reloadCh
    /\ fw' = [fw EXCEPT ![f] = "sending"]
    /\ UNCHANGED <<spc, evt, ctrl, dryRun, ctx,
                   lockHeld, exitVia, timer, wk, drift, marker>>
    /\ UNCHANGED fetchErr
    /\ UNCHANGED outsideAgent

\* The key-check forwarder of Run gets the AuthGuard's signal and probes
\* /check-key/; a rejected probe makes it send Hibernate.
KeyCheckForward ==
    /\ Alive
    /\ spc # "keycheck"
    /\ fw["key"] = "waiting"
    /\ \E valid \in BOOLEAN :
         fw' = [fw EXCEPT !["key"] = IF valid THEN "done" ELSE "sending"]
    /\ UNCHANGED <<spc, evt, ctrl, dryRun, ctx, lockHeld,
                   exitVia, timer, reloadCh, restartCh, wk, drift, marker>>
    /\ UNCHANGED fetchErr
    /\ UNCHANGED outsideAgent

\* A forwarder goroutine of Run: ctrl <- event, then the goroutine ends
ForwarderSend(f) ==
    /\ Alive
    /\ fw[f] = "sending"
    /\ ctrl = "none"
    /\ ctrl' = eventOf(f)
    /\ fw' = [fw EXCEPT ![f] = "done"]
    /\ UNCHANGED <<spc, evt, dryRun, ctx, lockHeld, exitVia,
                   timer, reloadCh, restartCh, wk, drift, marker>>
    /\ UNCHANGED fetchErr
    /\ UNCHANGED outsideAgent

\* The collection config on the server changes
ConfigDrift ==
    /\ Alive
    /\ ~drift
    /\ drift' = TRUE
    /\ UNCHANGED <<spc, evt, ctrl, dryRun, ctx, lockHeld,
                   exitVia, timer, reloadCh, restartCh, fw, wk, marker>>
    /\ UNCHANGED fetchErr
    /\ UNCHANGED outsideAgent

\* ConfigWatcher.run: case <-ticker.C, checkConfigForChange finds another
\* hash and does reloadCh <- true (blocking while the buffer is full)
ConfigWatcherTick ==
    /\ Alive
    /\ wk["cw"] = "run"
    /\ drift
    /\ IF reloadCh = 0
       THEN reloadCh' = 1 /\ UNCHANGED wk
       ELSE wk' = [wk EXCEPT !["cw"] = "sending"] /\ UNCHANGED reloadCh
    /\ UNCHANGED <<spc, evt, ctrl, dryRun, ctx, lockHeld,
                   exitVia, timer, restartCh, fw, drift, marker>>
    /\ UNCHANGED fetchErr
    /\ UNCHANGED outsideAgent

\* The restart file is created (by the updater or by an operator)
CreateMarker ==
    /\ Alive
    /\ marker = "none"
    /\ marker' = "fresh"
    /\ UNCHANGED <<spc, evt, ctrl, dryRun, ctx, lockHeld,
                   exitVia, timer, reloadCh, restartCh, fw, wk, drift>>
    /\ UNCHANGED fetchErr
    /\ UNCHANGED outsideAgent

\* RestartWatcher.run: case <-ticker.C, restartRequested removes the file,
\* then restartCh <- true (blocking while the buffer is full) and return
RestartWatcherTick ==
    /\ Alive
    /\ wk["rw"] = "run"
    /\ marker # "none"
    /\ marker' = "none"
    /\ IF restartCh = 0
       THEN restartCh' = 1 /\ wk' = [wk EXCEPT !["rw"] = "done"]
       ELSE wk' = [wk EXCEPT !["rw"] = "sending"] /\ UNCHANGED restartCh
    /\ UNCHANGED <<spc, evt, ctrl, dryRun, ctx,
                   lockHeld, exitVia, timer, reloadCh, fw, drift>>
    /\ UNCHANGED fetchErr
    /\ UNCHANGED outsideAgent

\* A watcher blocked in its channel send gets through
WatcherSendCompletes(x) ==
    /\ Alive
    /\ x \in {"cw", "rw"}
    /\ wk[x] = "sending"
    /\ IF x = "cw"
       THEN /\ reloadCh = 0
            /\ reloadCh' = 1
            /\ wk' = [wk EXCEPT ![x] = "run"]
            /\ UNCHANGED restartCh
       ELSE /\ restartCh = 0
            /\ restartCh' = 1
            /\ wk' = [wk EXCEPT ![x] = "done"]
            /\ UNCHANGED reloadCh
    /\ UNCHANGED <<spc, evt, ctrl, dryRun, ctx,
                   lockHeld, exitVia, timer, fw, drift, marker>>
    /\ UNCHANGED fetchErr
    /\ UNCHANGED outsideAgent

\* case <-ctx.Done() in ConfigWatcher.run, RestartWatcher.run,
\* metrics.StartCollection (deferred wg.Done) and the log consumer goroutine
\* (which closes logsChan before it returns)
WorkerCtxDone(x) ==
    /\ Alive
    /\ x \in {"cw", "rw", "metrics", "consumer"}
    /\ wk[x] = "run"
    /\ ctx = "done"
    /\ wk' = [wk EXCEPT ![x] = "done"]
    /\ UNCHANGED <<spc, evt, ctrl, dryRun, ctx, lockHeld,
                   exitVia, timer, reloadCh, restartCh, fw, drift, marker>>
    /\ UNCHANGED fetchErr
    /\ UNCHANGED outsideAgent

\* logs.StartCollection: <-ctx.Done(), then exp.Close(), which cancels the
\* exporter's context and waits until both flushers have done their last
\* flushAll and closed their done channels
LogsCtxDone ==
    /\ Alive
    /\ wk["logs"] = "run"
    /\ ctx = "done"
    /\ wk' = [wk EXCEPT !["logs"] = "stopping", !["flusher"] = "done"]
    /\ UNCHANGED <<spc, evt, ctrl, dryRun, ctx, lockHeld,
                   exitVia, timer, reloadCh, restartCh, fw, drift, marker>>
    /\ UNCHANGED fetchErr
    /\ UNCHANGED outsideAgent

\* logs.StartCollection: c.Stop() for each collector, where
\* JournalCTLCollector.Stop waits for readJournal; then the deferred wg.Done
LogsStopped ==
    /\ Alive
    /\ wk["logs"] = "stopping"
    /\ Stopped("journal")
    /\ wk' = [wk EXCEPT !["logs"] = "done"]
    /\ UNCHANGED <<spc, evt, ctrl, dryRun, ctx, lockHeld,
                   exitVia, timer, reloadCh, restartCh, fw, drift, marker>>
    /\ UNCHANGED fetchErr
    /\ UNCHANGED outsideAgent

\* readJournal: journal.Wait(IndefiniteWait) returns because an entry was
\* appended; processNewEntries sends it on out (a panic when the consumer has
\* closed the channel); back at the top of the loop a cancelled context ends
\* the goroutine.
JournalEntry ==
    /\ Alive
    /\ wk["journal"] = "waiting"
    /\ IF logsChanClosed
       THEN processEnds("panic")
       ELSE /\ wk' = [wk EXCEPT !["journal"] = IF ctx = "done" THEN "done" ELSE "waiting"]
            /\ UNCHANGED <<spc, exitVia, evt, ctrl, ctx, timer, reloadCh, restartCh, fw>>
    /\ UNCHANGED <<dryRun, lockHeld, drift, marker>>
    /\ UNCHANGED fetchErr
    /\ UNCHANGED outsideAgent

\* Steps of the program: the Go scheduler, the tickers and the timers of the
\* code make them happen
AgentSteps ==
    \/ InitialKeyCheck
    \/ StartServices
    \/ SelectEvent
    \/ DryRunTimeout
    \/ SelectCtxDone
    \/ WaitReturns
    \/ ExitAfterRelease
    \/ HibernateTimer
    \/ HibernateEvent
    \/ \E f \in Forwarders : ForwarderReceive(f) \/ ForwarderSend(f)
    \/ ConfigWatcherTick
    \/ RestartWatcherTick
    \/ \E x \in Workers : WatcherSendCompletes(x) \/ WorkerCtxDone(x)
    \/ LogsCtxDone
    \/ LogsStopped

\* Steps of the environment: signals, the server, the restart file, the
\* system journal
AgentEnv ==
    \/ Signal
    \/ KeyCheckForward
    \/ ConfigDrift
    \/ CreateMarker
    \/ JournalEntry

AgentNext == AgentSteps \/ AgentEnv

(***************************************************************************)
(* Part 5.  The spool file byte by byte                                    *)
(* A payload is a sequence of characters, "nl" being a line feed inside a  *)
(* string field.  The file is a sequence of bytes: "{" and "}" delimit a   *)
(* JSON object, "x" is a character, "esc" the escape sequence that         *)
(* json.Marshal writes for a line feed, "nl" a raw line feed.  A crash     *)
(* ends the process between two of its system calls; a write call that was *)
(* issued is in the file as a whole.                                       *)
(***************************************************************************)

MaxDurAppends == 3

Payloads == {<<"x">>, <<"nl">>, <<"x", "nl">>}

\* json.Marshal: the object in one line, line feeds escaped
marshal(p) ==
    <<"{">> \o [i \in 1..Len(p) |-> IF p[i] = "nl" THEN "esc" ELSE p[i]] \o <<"}">>

\* json.Unmarshal succeeds on a complete object only
unmarshalOk(line) ==
    /\ Len(line) >= 2
    /\ line[1] = "{"
    /\ line[Len(line)] = "}"
    /\ \A i \in 2..(Len(line) - 1) : line[i] \in {"x", "esc"}

unmarshal(line) ==
    [i \in 1..(Len(line) - 2) |-> IF line[i + 1] = "esc" THEN "nl" ELSE line[i + 1]]

\* Mutant: the line is written byte by byte
appendWrites_perByte(p) ==
    [i \in 1..(Len(p) + 3) |-> << (marshal(p) \o <<"nl">>)[i] >>]

\* appendToSpool: the write calls it issues on the O_APPEND descriptor: one,
\* holding the record and its line feed
appendWrites(p) == << marshal(p) \o <<"nl">> >>

\* strings.TrimRight(content, "\n")
RECURSIVE TrimRight(_)
TrimRight(s) ==
    IF Len(s) > 0 /\ s[Len(s)] = "nl" THEN TrimRight(SubSeq(s, 1, Len(s) - 1)) ELSE s

\* strings.Split(content, "\n")
RECURSIVE Split(_)
Split(s) ==
    IF \A i \in 1..Len(s) : s[i] # "nl"
    THEN <<s>>
    ELSE LET k == CHOOSE i \in 1..Len(s) :
                      s[i] = "nl" /\ \A j \in 1..(i - 1) : s[j] # "nl"
         IN  <<SubSeq(s, 1, k - 1)>> \o Split(SubSeq(s, k + 1, Len(s)))

\* flushOnce: the lines it obtains from the bytes that os.ReadFile returned
readLines(data) ==
    IF TrimRight(data) = <<>> THEN <<>> ELSE Split(TrimRight(data))

DurInit ==
    /\ dFile = <<>>
    /\ dCalls = <<>>
    /\ dPending = <<>>
    /\ dpc = "idle"
    /\ dDone = 0
    /\ dRead = <<>>
    /\ dSeen = 0

\* appendToSpool up to the open file: json.Marshal, os.OpenFile
DurAppendCall ==
    /\ dpc = "idle"
    /\ Len(dCalls) < MaxDurAppends
    /\ \E p \in Payloads :
         /\ dCalls' = Append(dCalls, p)
         /\ dPending' = appendWrites(p)
    /\ dpc' = "opened"
    /\ UNCHANGED <<dFile, dDone, dRead, dSeen>>
    /\ UNCHANGED outsideDurable

\* appendToSpool: f.Write; O_APPEND puts the bytes at the end of the file
DurWrite ==
    /\ dpc = "opened"
    /\ dPending # <<>>
    /\ dFile' = dFile \o Head(dPending)
    /\ dPending' = Tail(dPending)
    /\ UNCHANGED <<dCalls, dpc, dDone, dRead, dSeen>>
    /\ UNCHANGED outsideDurable

\* appendToSpool: f.Close and return nil
DurAppendReturn ==
    /\ dpc = "opened"
    /\ dPending = <<>>
    /\ dpc' = "idle"
    /\ dDone' = dDone + 1
    /\ UNCHANGED <<dFile, dCalls, dPending, dRead, dSeen>>
    /\ UNCHANGED outsideDurable

\* The process is killed or the machine stops; what was not written is lost
DurCrash ==
    /\ dpc \in {"idle", "opened"}
    /\ dpc' = "crashed"
    /\ dPending' = <<>>
    /\ UNCHANGED <<dFile, dCalls, dDone, dRead, dSeen>>
    /\ UNCHANGED outsideDurable

\* flushOnce reads the file, during the appends or after the crash (by the
\* process started next)
DurRead ==
    /\ dRead' = readLines(dFile)
    /\ dSeen' = dDone
    /\ UNCHANGED <<dFile, dCalls, dPending, dpc, dDone>>
    /\ UNCHANGED outsideDurable

DurNext ==
    \/ DurAppendCall
    \/ DurWrite
    \/ DurAppendReturn
    \/ DurCrash
    \/ DurRead

(***************************************************************************)
(* Part 6.  Self-updater: one run of updater.Update                        *)
(* File contents are named: "old" is the running binary, "good" the        *)
(* released binary, "bad" a tampered one, "part" a download cut short.     *)
(* Checksums are hex strings; "" is a checksum the server did not give.    *)
(***************************************************************************)

Contents == {"old", "good", "bad", "part"}

\* calculateFileSHA256: lower-case hex of the SHA-256 of the bytes
calculateFileSHA256(c) ==
    CASE c = "old" -> "0d"
      [] c = "good" -> "a1"
      [] c = "bad" -> "b2"
      [] c = "part" -> "c3"

\* The checksums a server can publish: none, the released binary's in lower
\* or upper case, the tampered binary's
Checksums == {"", "a1", "A1", "b2"}

\* checkForUpdate: the checksum of the manifest is preferred to the one of
\* the API response
expectedChecksum(api, manifest) == IF manifest # "" THEN manifest ELSE api

\* Mutant: the comparison is skipped
verifySHA256_skipped(file, expectedSHA256) == TRUE

\* verifySHA256: calculatedSHA256 == expectedSHA256
verifySHA256(file, expectedSHA256) == calculateFileSHA256(file) = expectedSHA256

\* A version is a string, kept as the sequence of its characters
Dev == <<"d", "e", "v">>

\* The segments the versions are built from: "2", "10" and "x"
Segments == {<<"2">>, <<"1", "0">>, <<"x">>}

RECURSIVE Join(_)
\* The strings of segs joined by "."
Join(segs) ==
    IF Len(segs) = 1 THEN segs[1]
    ELSE segs[1] \o <<".">> \o Join(Tail(segs))

\* The versions of a build or of a server answer: "dev", every version of
\* three segments, one of two segments and one of four
Versions ==
    {Dev} \cup {Join(segs) : segs \in [1..3 -> Segments]}
          \cup {Join(<<<<"2">>, <<"2">>>>), Join(<<<<"2">>, <<"2">>, <<"2">>, <<"2">>>>)}

RECURSIVE stringsSplit(_, _)
\* strings.Split(s, sep) for a separator of one character
stringsSplit(s, sep) ==
    IF \A i \in 1..Len(s) : s[i] # sep
    THEN <<s>>
    ELSE LET k == CHOOSE i \in 1..Len(s) :
                      s[i] = sep /\ \A j \in 1..(i - 1) : s[j] # sep
         IN  <<SubSeq(s, 1, k - 1)>> \o stringsSplit(SubSeq(s, k + 1, Len(s)), sep)

DigitChars == <<"0", "1", "2", "3", "4", "5", "6", "7", "8", "9">>

\* strconv.Atoi returns an error: no character, or one that is not a digit
\* (the versions here carry no sign)
atoiErr(s) ==
    Len(s) = 0 \/ \E i \in 1..Len(s) : \A d \in 1..Len(DigitChars) : DigitChars[d] # s[i]

RECURSIVE atoi(_)
\* strconv.Atoi of a string of digits
atoi(s) ==
    IF Len(s) = 0 THEN 0
    ELSE 10 * atoi(SubSeq(s, 1, Len(s) - 1))
         + ((CHOOSE d \in 1..Len(DigitChars) : DigitChars[d] = s[Len(s)]) - 1)

RECURSIVE compareParts(_, _, _)
\* targetVersionIsNewer: for i := range 3, from segment i on
compareParts(splitCurrent, splitTarget, i) ==
    IF i > 3 THEN FALSE
    ELSE IF atoiErr(splitCurrent[i]) \/ atoiErr(splitTarget[i]) THEN FALSE
    ELSE IF atoi(splitTarget[i]) > atoi(splitCurrent[i]) THEN TRUE
    ELSE IF atoi(splitTarget[i]) < atoi(splitCurrent[i]) THEN FALSE
    ELSE compareParts(splitCurrent, splitTarget, i + 1)

\* targetVersionIsNewer(currentVersion, targetVersion)
targetVersionIsNewer(currentVersion, targetVersion) ==
    IF currentVersion = Dev THEN TRUE
    ELSE LET splitCurrent == stringsSplit(currentVersion, ".")
             splitTarget == stringsSplit(targetVersion, ".")
         IN  IF Len(splitCurrent) # 3 \/ Len(splitTarget) # 3 THEN FALSE
             ELSE compareParts(splitCurrent, splitTarget, 1)

UpdInit ==
    /\ upc = "check"
    /\ uApi \in Checksums
    /\ uManifest \in Checksums
    /\ uExpected = ""
    /\ uNewFile \in {"absent", "part"}
    /\ uTarget = "old"
    /\ uDownloaded = "none"
    /\ uRenamed = FALSE
    /\ uMarker = FALSE
    /\ uCurrent \in Versions
    /\ uVersion = <<>>

\* Mutant: Update returns an error and no deferred function cleans up
UpdateFails_noCleanup ==
    /\ upc' = "failed"
    /\ UNCHANGED uNewFile

\* Update returns an error: the deferred function removes the temporary file
UpdateFails ==
    /\ upc' = "failed"
    /\ uNewFile' = "absent"

\* Update: checkForUpdate and targetVersionIsNewer
UpdCheck ==
    /\ upc = "check"
    /\ \/ /\ upc' = "failed"
          /\ UNCHANGED <<uExpected, uNewFile, uVersion>>
       \/ \E version \in Versions :
            IF expectedChecksum(uApi, uManifest) = ""
            THEN /\ upc' = "failed"
                 /\ UNCHANGED <<uExpected, uNewFile, uVersion>>
            ELSE /\ uExpected' = expectedChecksum(uApi, uManifest)
                 /\ uVersion' = version
                 /\ upc' = IF targetVersionIsNewer(uCurrent, version)
                           THEN "download" ELSE "done"
                 /\ UNCHANGED uNewFile
    /\ UNCHANGED <<uApi, uManifest, uTarget, uDownloaded, uRenamed, uMarker>>
    /\ UNCHANGED uCurrent
    /\ UNCHANGED outsideUpdate

\* Update: downloadBinary.  The request fails before the file is created, or
\* io.Copy fails with part of the body written, or the whole body is written.
UpdDownload ==
    /\ upc = "download"
    /\ \/ /\ UpdateFails
          /\ UNCHANGED uDownloaded
       \/ /\ UpdateFails
          /\ uDownloaded' = "part"
       \/ \E c \in {"good", "bad", "part"} :
            /\ uNewFile' = c
            /\ uDownloaded' = c
            /\ upc' = "verify"
    /\ UNCHANGED <<uApi, uManifest, uExpected, uTarget, uRenamed, uMarker>>
    /\ UNCHANGED <<uCurrent, uVersion>>
    /\ UNCHANGED outsideUpdate

\* Update: verifySHA256 and the two returns that follow it
UpdVerify ==
    /\ upc = "verify"
    /\ \/ UpdateFails
       \/ IF verifySHA256(uNewFile, uExpected)
          THEN upc' = "apply" /\ UNCHANGED uNewFile
          ELSE UpdateFails
    /\ UNCHANGED <<uApi, uManifest, uExpected, uTarget, uDownloaded, uRenamed, uMarker>>
    /\ UNCHANGED <<uCurrent, uVersion>>
    /\ UNCHANGED outsideUpdate

\* Update: applyUpdate, os.Rename(newExecPath, targetPath)
UpdApply ==
    /\ upc = "apply"
    /\ \/ /\ UpdateFails
          /\ UNCHANGED <<uTarget, uRenamed>>
       \/ /\ uTarget' = uNewFile
          /\ uNewFile' = "absent"
          /\ uRenamed' = TRUE
          /\ upc' = "signal"
    /\ UNCHANGED <<uApi, uManifest, uExpected, uDownloaded, uMarker>>
    /\ UNCHANGED <<uCurrent, uVersion>>
    /\ UNCHANGED outsideUpdate

\* Update: createRestartSignal and return
UpdSignal ==
    /\ upc = "signal"
    /\ \/ /\ upc' = "failed"
          /\ UNCHANGED uMarker
       \/ /\ upc' = "done"
          /\ uMarker' = TRUE
    /\ UNCHANGED <<uApi, uManifest, uExpected, uNewFile, uTarget, uDownloaded, uRenamed>>
    /\ UNCHANGED <<uCurrent, uVersion>>
    /\ UNCHANGED outsideUpdate

UpdNext ==
    \/ UpdCheck
    \/ UpdDownload
    \/ UpdVerify
    \/ UpdApply
    \/ UpdSignal

(***************************************************************************)
(* Part 7.  CollectionConfig.Hash as the config watcher uses it            *)
(* A received document lists its metrics and log sources in the order the  *)
(* server encoded them; the labels of a metric arrive as a sequence of     *)
(* <<key, value>> pairs.  Decoding puts the labels into a Go map, which    *)
(* has no order; json.Marshal writes slices in slice order and map keys in *)
(* sorted order.                                                           *)
(***************************************************************************)

MaxEntries == 2

\* Label keys in the order json.Marshal sorts them
LabelKeys == <<"cpu", "mode">>

LabelDocs ==
    { <<>>,
      << <<"cpu", "0">>, <<"mode", "user">> >>,
      << <<"mode", "user">>, <<"cpu", "0">> >> }

MetricDocs ==
    {[name |-> "cpu_ratio", labels |-> d] : d \in LabelDocs}
        \cup {[name |-> "mem_used", labels |-> <<>>]}

LogSourceDocs == {"nginx", "syslog"}

SeqsUpTo(S, n) == UNION {[1..k -> S] : k \in 0..n}

ReceivedConfigs ==
    {[metrics |-> ms, log_sources |-> ls] :
        ms \in SeqsUpTo(MetricDocs, MaxEntries),
        ls \in SeqsUpTo(LogSourceDocs, MaxEntries)}

\* json.Unmarshal into Metric.Labels: a map from the keys to their values
labelsMap(pairs) ==
    [k \in {pairs[i][1] : i \in DOMAIN pairs} |->
        pairs[CHOOSE i \in DOMAIN pairs : pairs[i][1] = k][2]]

\* json.Unmarshal into CollectionConfig: slices keep the document's order
decodeConfig(doc) ==
    [metrics |-> [i \in DOMAIN doc.metrics |->
                     [name |-> doc.metrics[i].name,
                      labels |-> labelsMap(doc.metrics[i].labels)]],
     log_sources |-> doc.log_sources]

\* json.Marshal of a map: the pairs in sorted key order
marshalLabels(m) ==
    [i \in DOMAIN SelectSeq(LabelKeys, LAMBDA k : k \in DOMAIN m) |->
        LET k == SelectSeq(LabelKeys, LAMBDA x : x \in DOMAIN m)[i]
        IN  <<k, m[k]>>]

\* json.Marshal(c): slices are written element by element in slice order
jsonMarshal(c) ==
    << [i \in DOMAIN c.metrics |->
           <<c.metrics[i].name, marshalLabels(c.metrics[i].labels)>>],
       c.log_sources >>

\* CollectionConfig.Hash: hex of sha256.Sum256(json.Marshal(c)); SHA-256 is
\* taken as free of collisions
Hash(c) == <<"sha256", jsonMarshal(c)>>

HashInit ==
    /\ cfgInitial \in ReceivedConfigs
    /\ cfgNew \in ReceivedConfigs
    /\ initialHash = <<>>
    /\ newHash = <<>>

\* ConfigWatcher.Start: hash, err := initialCfg.Hash()
ConfigWatcherStart ==
    /\ initialHash = <<>>
    /\ initialHash' = Hash(decodeConfig(cfgInitial))
    /\ UNCHANGED <<cfgInitial, cfgNew, newHash>>
    /\ UNCHANGED outsideHash

\* ConfigWatcher.checkConfigForChange: newHash, err := newCfg.Hash()
checkConfigForChange ==
    /\ initialHash # <<>>
    /\ newHash = <<>>
    /\ newHash' = Hash(decodeConfig(cfgNew))
    /\ UNCHANGED <<cfgInitial, cfgNew, initialHash>>
    /\ UNCHANGED outsideHash

HashNext ==
    \/ ConfigWatcherStart
    \/ checkConfigForChange

(***************************************************************************)
(* Part 8.  Log tailer: start offset, position updates, positions.json     *)
(* One file is tailed.  The glob matches it under either of two paths;     *)
(* while the agent is down the file can grow, be renamed, be truncated in  *)
(* place, or be replaced by a new file (rotation).  While the runner runs  *)
(* the file only grows.  tail.Tell is taken to return the offset after the *)
(* line the tailer goroutine received last.                                *)
(***************************************************************************)

MaxSize == 2
MaxInode == 2

Paths == {"a.log", "b.log"}

NoEntry == [inode |-> 0, size |-> 0, offset |-> 0]

\* PositionEntry: Fingerprint{Inode, Size} and Position{Offset}
Entry(ino, sz, off) == [inode |-> ino, size |-> sz, offset |-> off]

\* Mutant: the size of the stored fingerprint is not compared
fingerprintMatches_inodeOnly(entry, ino, sz) == entry # NoEntry /\ entry.inode = ino

\* matchByFingerprint: entry.Fingerprint.Inode == currentFp.Inode &&
\* entry.Fingerprint.Size <= currentFp.Size
fingerprintMatches(entry, ino, sz) ==
    entry # NoEntry /\ entry.inode = ino /\ entry.size <= sz

\* matchByFingerprint and the choice of loc in Start: the offsets Start can
\* take.  The second loop ranges over a Go map, so any matching entry can be
\* the one it returns.
startOffsets(pos, path, ino, sz) ==
    IF fingerprintMatches(pos[path], ino, sz)
    THEN {pos[path].offset}
    ELSE IF \E p \in Paths : fingerprintMatches(pos[p], ino, sz)
         THEN {pos[p].offset : p \in {q \in Paths : fingerprintMatches(pos[q], ino, sz)}}
         ELSE {0}

TailInit ==
    /\ tPath = "a.log"
    /\ tInode = 1
    /\ tSize \in 0..MaxSize
    /\ tpc = "down"
    /\ tOffset = 0
    /\ positions = [p \in Paths |-> NoEntry]
    /\ posFile = [p \in Paths |-> NoEntry]
    /\ tCount = [i \in 1..MaxSize |-> 0]
    /\ tCut = FALSE
    /\ tStored = 0
    /\ tCovered = TRUE

\* NewTailRunner (loadPositions) and TailRunner.Start for the matched file
TailStart ==
    /\ tpc = "down"
    /\ tpc' = "running"
    /\ positions' = posFile
    /\ tOffset' \in startOffsets(posFile, tPath, tInode, tSize)
    /\ tCovered' = (tCovered /\ (~tCut \/ tSize < tStored))
    /\ tCut' = FALSE
    /\ UNCHANGED <<tPath, tInode, tSize, posFile, tCount, tStored>>
    /\ UNCHANGED outsideTail

\* The tailer goroutine: case line := <-t.Lines, out <- processedLog,
\* t.Tell(), r.updatePosition(file, offset)
TailLine ==
    /\ tpc = "running"
    /\ tOffset < tSize
    /\ tOffset' = tOffset + 1
    /\ tCount' = [tCount EXCEPT ![tOffset + 1] = IF @ < 2 THEN @ + 1 ELSE @]
    /\ positions' = [positions EXCEPT ![tPath] = Entry(tInode, tSize, tOffset + 1)]
    /\ tStored' = tSize
    /\ UNCHANGED <<tPath, tInode, tSize, tpc, posFile, tCut, tCovered>>
    /\ UNCHANGED outsideTail

\* The position saving goroutine: case <-ticker.C, r.savePositions()
TailSaveTick ==
    /\ tpc = "running"
    /\ posFile # positions
    /\ posFile' = positions
    /\ UNCHANGED <<tPath, tInode, tSize, tpc, tOffset, positions, tCount, tCut,
                   tStored, tCovered>>
    /\ UNCHANGED outsideTail

\* TailRunner.Stop: Cleanup, wg.Wait, savePositions
TailStop ==
    /\ tpc = "running"
    /\ tpc' = "down"
    /\ posFile' = positions
    /\ UNCHANGED <<tPath, tInode, tSize, tOffset, positions, tCount, tCut,
                   tStored, tCovered>>
    /\ UNCHANGED outsideTail

\* A program appends a line to the file
FileGrows ==
    /\ tSize < MaxSize
    /\ tSize' = tSize + 1
    /\ UNCHANGED <<tPath, tInode, tpc, tOffset, positions, posFile, tCount, tCut,
                   tStored, tCovered>>
    /\ UNCHANGED outsideTail

\* The file is renamed while the agent is down
FileRenamed ==
    /\ tpc = "down"
    /\ tPath' \in Paths \ {tPath}
    /\ UNCHANGED <<tInode, tSize, tpc, tOffset, positions, posFile, tCount, tCut,
                   tStored, tCovered>>
    /\ UNCHANGED outsideTail

\* The file is truncated in place while the agent is down and gets new
\* content of a smaller size
FileTruncated ==
    /\ tpc = "down"
    /\ tSize > 0
    /\ tSize' \in 0..(tSize - 1)
    /\ tCount' = [i \in 1..MaxSize |-> 0]
    /\ tCut' = TRUE
    /\ UNCHANGED <<tPath, tInode, tpc, tOffset, positions, posFile, tStored, tCovered>>
    /\ UNCHANGED outsideTail

\* Rotation while the agent is down: a new, empty file takes the path
FileRotated ==
    /\ tpc = "down"
    /\ tInode < MaxInode
    /\ tInode' = tInode + 1
    /\ tSize' = 0
    /\ tCount' = [i \in 1..MaxSize |-> 0]
    /\ tCut' = FALSE
    /\ tStored' = 0
    /\ UNCHANGED <<tPath, tpc, tOffset, positions, posFile, tCovered>>
    /\ UNCHANGED outsideTail

TailNext ==
    \/ TailStart
    \/ TailLine
    \/ TailSaveTick
    \/ TailStop
    \/ FileGrows
    \/ FileRenamed
    \/ FileTruncated
    \/ FileRotated

(***************************************************************************)
(* Part 9.  BaseCollector.IsIncluded: which data points a collector emits  *)
(* A label map is a function from a set of keys to strings.                *)
(***************************************************************************)

MaxIncluded == 1

MetricNames == {"cpu_ratio", "disk_used"}
FilterKeys == {"cpu", "mode"}
FilterValues == {"", "user"}

LabelMaps == UNION {[D -> FilterValues] : D \in SUBSET FilterKeys}

IncludedSpecs == {[name |-> n, labels |-> m] : n \in MetricNames, m \in LabelMaps}

\* b[k] on a Go map: the zero value "" when the key is missing
mapIndex(m, k) == IF k \in DOMAIN m THEN m[k] ELSE ""

\* labelsEqual(a, b)
labelsEqual(a, b) ==
    /\ Cardinality(DOMAIN a) = Cardinality(DOMAIN b)
    /\ \A k \in DOMAIN a : mapIndex(b, k) = a[k]

\* BaseCollector.IsIncluded(name, labels)
IsIncluded(metrics, name, labels) ==
    \E i \in DOMAIN metrics :
        metrics[i].name = name /\ labelsEqual(labels, metrics[i].labels)

FilterInit ==
    /\ includedMetrics = <<>>
    /\ included = FALSE
    /\ dpName \in MetricNames
    /\ dpLabels \in LabelMaps
    /\ dpState = "pending"

\* BaseCollector.SetIncludedMetrics
SetIncludedMetrics ==
    /\ ~included
    /\ included' = TRUE
    /\ includedMetrics' \in SeqsUpTo(IncludedSpecs, MaxIncluded)
    /\ UNCHANGED <<dpName, dpLabels, dpState>>
    /\ UNCHANGED outsideFilter

\* A collector's Collect: if c.IsIncluded(dp.Name, dp.Labels) the data point
\* is appended to the result
CollectDataPoint ==
    /\ included
    /\ dpState = "pending"
    /\ dpState' = IF IsIncluded(includedMetrics, dpName, dpLabels)
                  THEN "emitted" ELSE "filtered"
    /\ UNCHANGED <<includedMetrics, included, dpName, dpLabels>>
    /\ UNCHANGED outsideFilter

FilterNext ==
    \/ SetIncludedMetrics
    \/ CollectDataPoint

(***************************************************************************)
(* Part 10.  The log pipeline of one scope: the tail runners, the shared   *)
(* channel, the consumer and positions.json                                *)
(* Every runner tails one file, named like the runner; offsets are counted *)
(* in lines.  An entry is <<r, i>>: line i of the file of runner r.        *)
(***************************************************************************)

MaxLines == 2    \* lines a tailed file grows to
ChanCap == 2     \* capacity of logsChan (1000 in the code)

\* BuildCollectors: the collectors that run a TailRunner
Runners == {"nginx", "apache"}

NoPos == 0 - 1

\* loadPositions: positions[entry.Path] = entry for the entries of the document
loadPositions(doc) ==
    [p \in Runners |->
        IF \E e \in doc : e.path = p
        THEN (CHOOSE e \in doc : e.path = p).offset
        ELSE NoPos]

\* savePositions: the document lists the entries of the map it is given, and
\* replaces the file
savePositions(pos) ==
    {[path |-> p, offset |-> pos[p]] : p \in {q \in Runners : pos[q] # NoPos}}

\* Start: the offset of a matching entry, 0 for a file without one
seekOffset(pos, p) == IF pos[p] # NoPos THEN pos[p] ELSE 0

\* An earlier run of the agent read k lines of every file, spooled them and
\* saved its positions; or there was no earlier run.
PipeInit ==
    /\ \E k \in 0..1 :
         /\ lgSize = [r \in Runners |-> k]
         /\ posDoc = IF k = 0 THEN {} ELSE savePositions([r \in Runners |-> k])
         /\ lspool = {<<r, i>> : r \in Runners, i \in 1..k}
    /\ rnpc = [r \in Runners |-> "new"]
    /\ rnOff = [r \in Runners |-> 0]
    /\ rnPos = [r \in Runners |-> [p \in Runners |-> NoPos]]
    /\ logsChan = <<>>
    /\ pctx = "live"
    /\ cons = "run"

\* A line is appended to the file of runner r
LogGrows(r) ==
    /\ lgSize[r] < MaxLines
    /\ lgSize' = [lgSize EXCEPT ![r] = lgSize[r] + 1]
    /\ UNCHANGED <<rnpc, rnOff, rnPos, posDoc, logsChan, lspool, pctx, cons>>
    /\ UNCHANGED outsidePipe

\* StartCollection: c.Start(ctx, logsChan): NewTailRunner loads positions.json
\* and Start seeks the tailer
RunnerStart(r) ==
    /\ rnpc[r] = "new"
    /\ pctx = "live"
    /\ rnpc' = [rnpc EXCEPT ![r] = "running"]
    /\ rnPos' = [rnPos EXCEPT ![r] = loadPositions(posDoc)]
    /\ rnOff' = [rnOff EXCEPT ![r] = seekOffset(loadPositions(posDoc), r)]
    /\ UNCHANGED <<lgSize, posDoc, logsChan, lspool, pctx, cons>>
    /\ UNCHANGED outsidePipe

\* The tailer goroutine: case line := <-t.Lines; out <- processedLog;
\* updatePosition(file, t.Tell()).  The case can be taken while ctx.Done()
\* is ready too.  The send waits while the buffer is full.
RunnerLine(r) ==
    /\ rnpc[r] = "running"
    /\ cons # "panic"
    /\ rnOff[r] < lgSize[r]
    /\ IF cons = "done"
       THEN /\ cons' = "panic"
            /\ UNCHANGED <<rnOff, rnPos, logsChan>>
       ELSE /\ Len(logsChan) < ChanCap
            /\ logsChan' = Append(logsChan, <<r, rnOff[r] + 1>>)
            /\ rnOff' = [rnOff EXCEPT ![r] = rnOff[r] + 1]
            /\ rnPos' = [rnPos EXCEPT ![r][r] = rnOff[r] + 1]
            /\ UNCHANGED cons
    /\ UNCHANGED <<lgSize, rnpc, posDoc, lspool, pctx>>
    /\ UNCHANGED outsidePipe

\* The position saving goroutine: case <-ticker.C: r.savePositions()
RunnerSaveTick(r) ==
    /\ rnpc[r] = "running"
    /\ cons # "panic"
    /\ posDoc' = savePositions(rnPos[r])
    /\ posDoc' # posDoc
    /\ UNCHANGED <<lgSize, rnpc, rnOff, rnPos, logsChan, lspool, pctx, cons>>
    /\ UNCHANGED outsidePipe

\* The consumer goroutine: case logEntry := <-logsChan; exp.ExportLog
ConsumerEntry ==
    /\ cons = "run"
    /\ Len(logsChan) > 0
    /\ lspool' = lspool \cup {Head(logsChan)}
    /\ logsChan' = Tail(logsChan)
    /\ UNCHANGED <<lgSize, rnpc, rnOff, rnPos, posDoc, pctx, cons>>
    /\ UNCHANGED outsidePipe

\* The supervisor cancels the scope
PipeCancel ==
    /\ pctx = "live"
    /\ pctx' = "done"
    /\ UNCHANGED <<lgSize, rnpc, rnOff, rnPos, posDoc, logsChan, lspool, cons>>
    /\ UNCHANGED outsidePipe

\* The consumer goroutine: case <-ctx.Done(): close(logsChan); return.  What
\* the buffer holds is read by no one.
ConsumerCtxDone ==
    /\ cons = "run"
    /\ pctx = "done"
    /\ cons' = "done"
    /\ UNCHANGED <<lgSize, rnpc, rnOff, rnPos, posDoc, logsChan, lspool, pctx>>
    /\ UNCHANGED outsidePipe

\* StartCollection after <-ctx.Done(): c.Stop() for each collector;
\* TailRunner.Stop waits for its goroutines and saves the positions
RunnerStop(r) ==
    /\ rnpc[r] = "running"
    /\ pctx = "done"
    /\ cons # "panic"
    /\ rnpc' = [rnpc EXCEPT ![r] = "stopped"]
    /\ posDoc' = savePositions(rnPos[r])
    /\ UNCHANGED <<lgSize, rnOff, rnPos, logsChan, lspool, pctx, cons>>
    /\ UNCHANGED outsidePipe

PipeNext ==
    \/ \E r \in Runners :
         \/ LogGrows(r)
         \/ RunnerStart(r)
         \/ RunnerLine(r)
         \/ RunnerSaveTick(r)
         \/ RunnerStop(r)
    \/ ConsumerEntry
    \/ PipeCancel
    \/ ConsumerCtxDone

(***************************************************************************)
(* Part 11.  rewriteSpool system call by system call                       *)
(* A file is the sequence of its lines, a line the id of its record.       *)
(***************************************************************************)

MaxRewrites == 2   \* rewriteSpool calls in one behaviour
MaxSpoolLines == 3 \* lines of the spool file at the start

\* The proper prefixes of a content: what a failed write leaves in a file
ProperPrefixes(c) == {SubSeq(c, 1, n) : n \in 0..(Len(c) - 1)}

RewriteInit ==
    /\ \E n \in 0..MaxSpoolLines : rsPath = [i \in 1..n |-> i]
    /\ rsTmpThere = FALSE
    /\ rsTmp = <<>>
    /\ rspc = "idle"
    /\ rsOld = <<>>
    /\ rsNew = <<>>
    /\ rsCalls = 0

\* flushOnce: e.rewriteSpool(spoolFile, keepLines), keepLines being the lines
\* beyond the batch
RewriteCall ==
    /\ rspc \in {"idle", "done", "failed"}
    /\ rsCalls < MaxRewrites
    /\ rsCalls' = rsCalls + 1
    /\ rsOld' = rsPath
    /\ \E k \in 0..Len(rsPath) : rsNew' = SubSeq(rsPath, k + 1, Len(rsPath))
    /\ rspc' = "write"
    /\ UNCHANGED <<rsPath, rsTmpThere, rsTmp>>
    /\ UNCHANGED outsideRewrite

\* rewriteSpool: os.WriteFile(tmp, content); on an error the call returns.
\* WriteFile opens with O_CREATE|O_TRUNC and writes: it fails before the
\* file is opened, or with the file created and part of the content in it.
RewriteWriteTmp ==
    /\ rspc = "write"
    /\ \/ /\ rsTmpThere' = TRUE
          /\ rsTmp' = rsNew
          /\ rspc' = "rename"
       \/ /\ rspc' = "failed"
          /\ UNCHANGED <<rsTmpThere, rsTmp>>
       \/ /\ rspc' = "failed"
          /\ rsTmpThere' = TRUE
          /\ rsTmp' \in ProperPrefixes(rsNew) \cup {<<>>}
    /\ UNCHANGED <<rsPath, rsOld, rsNew, rsCalls>>
    /\ UNCHANGED outsideRewrite

\* rewriteSpool: os.Rename(tmp, path); on an error os.Remove(tmp)
RewriteRename ==
    /\ rspc = "rename"
    /\ \/ /\ rsPath' = rsTmp
          /\ rspc' = "done"
       \/ /\ rspc' = "failed"
          /\ UNCHANGED rsPath
    /\ rsTmpThere' = FALSE
    /\ rsTmp' = <<>>
    /\ UNCHANGED <<rsOld, rsNew, rsCalls>>
    /\ UNCHANGED outsideRewrite

RewriteNext ==
    \/ RewriteCall
    \/ RewriteWriteTmp
    \/ RewriteRename

(***************************************************************************)
(* Part 12.  CPUCollector.Collect                                          *)
(* The statistics of a core are its cumulative time; every core accrues    *)
(* time between two calls of Collect.                                      *)
(***************************************************************************)

MaxCores == 3    \* cores of the host
MaxCollects == 4 \* calls of Collect in one behaviour

\* The label of the aggregate, beside the cores 1..n
AllCores == 0

\* cpu.Times(true): one entry per core
cpuTimes(n, t) == [i \in 1..n |-> t]

\* Collect: the cores with totalCore > 0, and "all" when totalAllCores > 0
pointsOf(prev, curr) ==
    LET live == {i \in 1..Len(curr) : curr[i] - prev[i] > 0}
    IN  live \cup (IF live # {} THEN {AllCores} ELSE {})

CpuInit ==
    /\ cores \in 1..MaxCores
    /\ cpuTime = 0
    /\ lastStats = <<>>
    /\ cpuErr = "none"
    /\ cpuPoints = {}
    /\ seenCores = 0

\* A core is taken online or offline
CoreChange ==
    /\ \E n \in 1..MaxCores : n # cores /\ cores' = n
    /\ UNCHANGED <<cpuTime, lastStats, cpuErr, cpuPoints, seenCores>>
    /\ UNCHANGED outsideCpu

\* CPUCollector.Collect, one collection cycle later
Collect ==
    /\ cpuTime < MaxCollects
    /\ cpuTime' = cpuTime + 1
    /\ \/ /\ cpuErr' = "times"
          /\ cpuPoints' = {}
          /\ UNCHANGED <<lastStats, seenCores>>
       \/ LET currStats == cpuTimes(cores, cpuTime')
          IN  /\ seenCores' = Len(currStats)
              /\ IF lastStats = <<>>
                 THEN /\ lastStats' = currStats
                      /\ cpuErr' = "nil"
                      /\ cpuPoints' = {}
                 ELSE IF Len(currStats) # Len(lastStats)
                 THEN /\ cpuErr' = "mismatch"
                      /\ cpuPoints' = {}
                      /\ UNCHANGED lastStats
                 ELSE /\ cpuPoints' = pointsOf(lastStats, currStats)
                      /\ cpuErr' = "nil"
                      /\ lastStats' = currStats
    /\ UNCHANGED cores
    /\ UNCHANGED outsideCpu

CpuNext ==
    \/ CoreChange
    \/ Collect

(***************************************************************************)
(* Part 13.  ConfigWatcher.run: the ticker and its period                  *)
(* One watcher from Start to the end of its scope.  Durations are in       *)
(* seconds.                                                                *)
(***************************************************************************)

MaxWatchTicks == 2 \* ticks the watcher handles in one behaviour
MaxWatched == 1    \* metrics, and log sources, of a fetched document

fast == 5
slow == 300

\* make(chan bool, 1)
ReloadChCap == 1

\* The /configs/ documents the server hands out: metrics without labels
WatchedConfigs ==
    {[metrics |-> ms, log_sources |-> ls] :
        ms \in SeqsUpTo({m \in MetricDocs : m.labels = <<>>}, MaxWatched),
        ls \in SeqsUpTo(LogSourceDocs, MaxWatched)}

\* Mutant: the period does not depend on the config
determineTickDuration_alwaysSlow(cfg) == slow

\* determineTickDuration
determineTickDuration(cfg) ==
    IF Len(cfg.log_sources) = 0 /\ Len(cfg.metrics) = 0 THEN fast ELSE slow

\* ConfigWatcher.Start and the top of run
WatchInit ==
    /\ cwCfg \in WatchedConfigs
    /\ cwHash = Hash(decodeConfig(cwCfg))
    /\ cwDuration = determineTickDuration(decodeConfig(cwCfg))
    /\ cwpc = "select"
    /\ cwFetched = "none"
    /\ cwReloadCh \in 0..ReloadChCap
    /\ cwFwd \in {"waiting", "done"}
    /\ cwCtx = "live"
    /\ cwTicks = 0

\* run: case <-ticker.C.  checkConfigForChange fetches and compares the
\* hashes; with a config in hand run rebuilds the ticker when the period
\* differs.  The send on reloadCh blocks while the buffer is full.
WatchTick ==
    /\ cwpc = "select"
    /\ cwTicks < MaxWatchTicks
    /\ cwTicks' = cwTicks + 1
    /\ \/ /\ cwFetched' = "failed"
          /\ UNCHANGED <<cwCfg, cwDuration, cwpc, cwReloadCh>>
       \/ \E doc \in WatchedConfigs :
            /\ cwFetched' = "ok"
            /\ cwCfg' = doc
            /\ IF Hash(decodeConfig(doc)) # cwHash
               THEN IF cwReloadCh < ReloadChCap
                    THEN /\ cwReloadCh' = cwReloadCh + 1
                         /\ cwDuration' = determineTickDuration(decodeConfig(doc))
                         /\ UNCHANGED cwpc
                    ELSE /\ cwpc' = "sending"
                         /\ UNCHANGED <<cwReloadCh, cwDuration>>
               ELSE /\ cwDuration' = determineTickDuration(decodeConfig(doc))
                    /\ UNCHANGED <<cwpc, cwReloadCh>>
    /\ UNCHANGED <<cwHash, cwFwd, cwCtx>>
    /\ UNCHANGED outsideWatch

\* checkConfigForChange: the blocked send goes through, the config is
\* returned and run sets the ticker
WatchSendCompletes ==
    /\ cwpc = "sending"
    /\ cwReloadCh < ReloadChCap
    /\ cwReloadCh' = cwReloadCh + 1
    /\ cwDuration' = determineTickDuration(decodeConfig(cwCfg))
    /\ cwpc' = "select"
    /\ UNCHANGED <<cwHash, cwCfg, cwFetched, cwFwd, cwCtx, cwTicks>>
    /\ UNCHANGED outsideWatch

\* Agent.Run: <-a.reloadCh, received once; the supervisor's Reload then
\* cancels the scope
ReloadForward ==
    /\ cwFwd = "waiting"
    /\ cwReloadCh > 0
    /\ cwReloadCh' = cwReloadCh - 1
    /\ cwFwd' = "done"
    /\ cwCtx' = "done"
    /\ UNCHANGED <<cwHash, cwDuration, cwpc, cwCfg, cwFetched, cwTicks>>
    /\ UNCHANGED outsideWatch

\* The scope is cancelled for another reason: a signal, hibernation
WatchCancel ==
    /\ cwCtx = "live"
    /\ cwCtx' = "done"
    /\ UNCHANGED <<cwHash, cwDuration, cwpc, cwCfg, cwFetched, cwReloadCh, cwFwd, cwTicks>>
    /\ UNCHANGED outsideWatch

\* run: case <-ctx.Done()
WatchCtxDone ==
    /\ cwpc = "select"
    /\ cwCtx = "done"
    /\ cwpc' = "stopped"
    /\ UNCHANGED <<cwHash, cwDuration, cwCfg, cwFetched, cwReloadCh, cwFwd, cwCtx, cwTicks>>
    /\ UNCHANGED outsideWatch

WatchNext ==
    \/ WatchTick
    \/ WatchSendCompletes
    \/ ReloadForward
    \/ WatchCancel
    \/ WatchCtxDone

\* The parts that a specification leaves alone rest in these states
SpoolIdle ==
    /\ spool = <<>>
    /\ now = InitNow
    /\ nextId = 1
    /\ appended = 0
    /\ ectx = "live"
    /\ fpc = "wait"
    /\ fFinal = FALSE
    /\ fLines = <<>>
    /\ fToSend = <<>>
    /\ rwFails = 0
    /\ fErr = "none"
    /\ ackSeq = 0
    /\ ackAt = [i \in 1..MaxId |-> 0]
    /\ dropped = {}

LockIdle ==
    /\ pidExists = FALSE
    /\ pidData = <<>>
    /\ lpc = [p \in Procs |-> "idle"]
    /\ lfd = [p \in Procs |-> "none"]
    /\ lold = [p \in Procs |-> 0]
    /\ alive = [p \in Procs |-> FALSE]
    /\ lres = [p \in Procs |-> "none"]
    /\ solo = [p \in Procs |-> FALSE]
    /\ owner = 0
    /\ holder = [p \in Procs |-> 0]
    /\ lexit = [p \in Procs |-> "none"]

AuthIdle == AuthInit

AgentIdle ==
    /\ spc = "keycheck"
    /\ evt = "none"
    /\ ctrl = "none"
    /\ dryRun = FALSE
    /\ ctx = "none"
    /\ lockHeld = TRUE
    /\ exitVia = "none"
    /\ timer = "off"
    /\ reloadCh = 0
    /\ restartCh = 0
    /\ fw = [f \in Forwarders |-> "waiting"]
    /\ wk = [x \in Workers |-> "off"]
    /\ drift = FALSE
    /\ marker = "none"
    /\ fetchErr = "none"

DurIdle == DurInit

UpdIdle ==
    /\ upc = "check"
    /\ uApi = ""
    /\ uManifest = ""
    /\ uExpected = ""
    /\ uNewFile = "absent"
    /\ uTarget = "old"
    /\ uDownloaded = "none"
    /\ uRenamed = FALSE
    /\ uMarker = FALSE
    /\ uCurrent = Dev
    /\ uVersion = <<>>

HashIdle ==
    /\ cfgInitial = [metrics |-> <<>>, log_sources |-> <<>>]
    /\ cfgNew = [metrics |-> <<>>, log_sources |-> <<>>]
    /\ initialHash = <<>>
    /\ newHash = <<>>

TailIdle ==
    /\ tPath = "a.log"
    /\ tInode = 1
    /\ tSize = 0
    /\ tpc = "down"
    /\ tOffset = 0
    /\ positions = [p \in Paths |-> NoEntry]
    /\ posFile = [p \in Paths |-> NoEntry]
    /\ tCount = [i \in 1..MaxSize |-> 0]
    /\ tCut = FALSE
    /\ tStored = 0
    /\ tCovered = TRUE

FilterIdle ==
    /\ includedMetrics = <<>>
    /\ included = FALSE
    /\ dpName = "cpu_ratio"
    /\ dpLabels = <<>>
    /\ dpState = "pending"

PipeIdle ==
    /\ lgSize = [r \in Runners |-> 0]
    /\ rnpc = [r \in Runners |-> "new"]
    /\ rnOff = [r \in Runners |-> 0]
    /\ rnPos = [r \in Runners |-> [p \in Runners |-> NoPos]]
    /\ posDoc = {}
    /\ logsChan = <<>>
    /\ lspool = {}
    /\ pctx = "live"
    /\ cons = "run"

RewriteIdle ==
    /\ rsPath = <<>>
    /\ rsTmpThere = FALSE
    /\ rsTmp = <<>>
    /\ rspc = "idle"
    /\ rsOld = <<>>
    /\ rsNew = <<>>
    /\ rsCalls = 0

CpuIdle ==
    /\ cores = 1
    /\ cpuTime = 0
    /\ lastStats = <<>>
    /\ cpuErr = "none"
    /\ cpuPoints = {}
    /\ seenCores = 0

WatchIdle ==
    /\ cwHash = <<>>
    /\ cwDuration = 0
    /\ cwpc = "stopped"
    /\ cwCfg = <<>>
    /\ cwFetched = "none"
    /\ cwReloadCh = 0
    /\ cwFwd = "done"
    /\ cwCtx = "done"
    /\ cwTicks = 0

vars == <<spoolVars, lockVars, authVars, agentVars, durVars, updVars, hashVars, tailVars, filterVars, pipeVars, rewriteVars, cpuVars, watchVars>>

InitSpool == SpoolInit /\ LockIdle /\ AuthIdle /\ AgentIdle /\ DurIdle /\ UpdIdle /\ HashIdle /\ TailIdle /\ FilterIdle /\ PipeIdle /\ RewriteIdle /\ CpuIdle /\ WatchIdle

SpecSpool == InitSpool /\ [][SpoolNext]_vars

InitLock == SpoolIdle /\ LockInit /\ AuthIdle /\ AgentIdle /\ DurIdle /\ UpdIdle /\ HashIdle /\ TailIdle /\ FilterIdle /\ PipeIdle /\ RewriteIdle /\ CpuIdle /\ WatchIdle

SpecLock == InitLock /\ [][LockNext]_vars

InitAuth == SpoolIdle /\ LockIdle /\ AuthInit /\ AgentIdle /\ DurIdle /\ UpdIdle /\ HashIdle /\ TailIdle /\ FilterIdle /\ PipeIdle /\ RewriteIdle /\ CpuIdle /\ WatchIdle

SpecAuth == InitAuth /\ [][AuthNext]_vars

InitAgent == SpoolIdle /\ LockIdle /\ AuthIdle /\ AgentInit /\ DurIdle /\ UpdIdle /\ HashIdle /\ TailIdle /\ FilterIdle /\ PipeIdle /\ RewriteIdle /\ CpuIdle /\ WatchIdle

SpecAgent == InitAgent /\ [][AgentNext]_vars

InitDurable == SpoolIdle /\ LockIdle /\ AuthIdle /\ AgentIdle /\ DurInit /\ UpdIdle /\ HashIdle /\ TailIdle /\ FilterIdle /\ PipeIdle /\ RewriteIdle /\ CpuIdle /\ WatchIdle

SpecDurable == InitDurable /\ [][DurNext]_vars

InitUpdate == SpoolIdle /\ LockIdle /\ AuthIdle /\ AgentIdle /\ DurIdle /\ UpdInit /\ HashIdle /\ TailIdle /\ FilterIdle /\ PipeIdle /\ RewriteIdle /\ CpuIdle /\ WatchIdle

SpecUpdate == InitUpdate /\ [][UpdNext]_vars

InitHash == SpoolIdle /\ LockIdle /\ AuthIdle /\ AgentIdle /\ DurIdle /\ UpdIdle /\ HashInit /\ TailIdle /\ FilterIdle /\ PipeIdle /\ RewriteIdle /\ CpuIdle /\ WatchIdle

SpecHash == InitHash /\ [][HashNext]_vars

InitTail == SpoolIdle /\ LockIdle /\ AuthIdle /\ AgentIdle /\ DurIdle /\ UpdIdle /\ HashIdle /\ TailInit /\ FilterIdle /\ PipeIdle /\ RewriteIdle /\ CpuIdle /\ WatchIdle

SpecTail == InitTail /\ [][TailNext]_vars

InitFilter == SpoolIdle /\ LockIdle /\ AuthIdle /\ AgentIdle /\ DurIdle /\ UpdIdle /\ HashIdle /\ TailIdle /\ FilterInit /\ PipeIdle /\ RewriteIdle /\ CpuIdle /\ WatchIdle

SpecFilter == InitFilter /\ [][FilterNext]_vars

InitPipe == SpoolIdle /\ LockIdle /\ AuthIdle /\ AgentIdle /\ DurIdle /\ UpdIdle /\ HashIdle /\ TailIdle /\ FilterIdle /\ PipeInit /\ RewriteIdle /\ CpuIdle /\ WatchIdle

SpecPipe == InitPipe /\ [][PipeNext]_vars

InitRewrite == SpoolIdle /\ LockIdle /\ AuthIdle /\ AgentIdle /\ DurIdle /\ UpdIdle /\ HashIdle /\ TailIdle /\ FilterIdle /\ PipeIdle /\ RewriteInit /\ CpuIdle /\ WatchIdle

SpecRewrite == InitRewrite /\ [][RewriteNext]_vars

InitCpu == SpoolIdle /\ LockIdle /\ AuthIdle /\ AgentIdle /\ DurIdle /\ UpdIdle /\ HashIdle /\ TailIdle /\ FilterIdle /\ PipeIdle /\ RewriteIdle /\ CpuInit /\ WatchIdle

SpecCpu == InitCpu /\ [][CpuNext]_vars

InitWatch == SpoolIdle /\ LockIdle /\ AuthIdle /\ AgentIdle /\ DurIdle /\ UpdIdle /\ HashIdle /\ TailIdle /\ FilterIdle /\ PipeIdle /\ RewriteIdle /\ CpuIdle /\ WatchInit

SpecWatch == InitWatch /\ [][WatchNext]_vars

\* The program's steps are taken when they stay possible; the environment's
\* steps need not happen
SpecAgentFair == SpecAgent /\ WF_vars(AgentSteps)

(***************************************************************************)
(* Claims about the exporter                                               *)
(***************************************************************************)

\* C1 (as claimed): no record is lost.  Every record that was appended to the
\* spool is still in the spool, or was in a POST the sink answered 204, or
\* was dropped as stale or corrupt; in particular a record appended between
\* flushOnce's read and its rewrite is not removed from the spool unsent.
C1_NoRecordLost ==
    \A i \in 1..(nextId - 1) :
        \/ i \in Ids(spool)
        \/ ackAt[i] # 0
        \/ i \in dropped

\* The ids a step acknowledges for the first time
NewlyAcked == {i \in 1..MaxId : ackAt[i] = 0 /\ ackAt'[i] # 0}

\* C10: within a stream the sink is presented records in append order.
\* Every POST body lists its records in append order, and a record that is
\* acknowledged for the first time was appended after every record that was
\* acknowledged by an earlier POST.
C10_AppendOrder ==
    /\ [](\A k \in 1..(Len(fToSend) - 1) : fToSend[k].id < fToSend[k + 1].id)
    /\ [][ackAt' # ackAt =>
            \A a \in NewlyAcked : \A b \in 1..MaxId : ackAt[b] # 0 => b < a]_vars

\* C10 witness: a second acknowledged POST holds two records, the second of
\* them appended after the first batch was built, and record 1 was
\* acknowledged by the first POST.
C10_Witness ==
    /\ fpc = "rewrite"
    /\ Len(fToSend) >= 2
    /\ ackAt[1] = 1
    /\ ackAt[fToSend[2].id] = 2

IsPrefix(s, t) == Len(s) <= Len(t) /\ SubSeq(t, 1, Len(s)) = s

\* C11: when the POST of a batch ends in a transport error or in a status
\* other than 204 (the step out of "send" that acknowledges nothing),
\* flushOnce returns without touching the spool file: no record is removed,
\* and the lines it had read are still the prefix of the file, so the next
\* flushOnce starts from the same prefix.
C11_FailedPostKeepsSpool ==
    [][(fpc = "send" /\ fpc' # "send" /\ ackSeq' = ackSeq) =>
          /\ spool' = spool
          /\ IsPrefix(fLines, spool')
          /\ fpc' # "rewrite"]_vars

\* C11 witness: a POST has failed and the spool still starts with the corrupt
\* line and the record behind it that the failed flushOnce had read.
C11_Witness ==
    /\ fErr = "send"
    /\ Len(spool) >= 2
    /\ spool[1].id = 1 /\ ~spool[1].json
    /\ spool[2].id = 2

\* C12 (as claimed): without a process crash no record is contained in more
\* than one POST that the sink answered 204: a POST that is acknowledged
\* holds no record that an earlier POST already got acknowledged.
C12_NoDuplicateAck ==
    [][ackSeq' # ackSeq => \A i \in Ids(fToSend) : ackAt[i] = 0]_vars

\* C13: every POST issued by the flusher carries at most 100 records.
C13_BatchAtMost100 == Len(fToSend) <= MaxBatchSize

\* C13 witness: the spool held more than 100 lines and the POST about to be
\* sent carries exactly 100 of them.
C13_Witness ==
    /\ fpc = "send"
    /\ Len(fLines) > MaxBatchSize
    /\ Len(fToSend) = MaxBatchSize

\* C14: a record of the batch prefix whose timestamp is older than now - 24 h
\* when flushOnce builds the batch is not in the POST body, and the rewrite
\* that follows the batch removes it from the spool with the rest of the
\* prefix.
C14_StaleNeverSent ==
    /\ [][(fpc = "flushAll" /\ fpc' \in {"send", "rewrite"}) =>
            \A k \in 1..Len(spool) :
                (k <= MaxBatchSize /\ spool[k].ts < now - MaxAge)
                    => spool[k].id \notin Ids(fToSend')]_vars
    /\ [][(fpc = "rewrite" /\ fpc' # "rewrite" /\ rwFails' = rwFails) =>
            \A k \in 1..Len(fLines) :
                (k <= MaxBatchSize /\ fLines[k].id \notin Ids(fToSend))
                    => fLines[k].id \notin Ids(spool')]_vars

\* C14 witness: the batch was built from a spool whose first record was
\* older than 24 h; the POST body holds only the second record.
C14_Witness ==
    /\ fpc = "send"
    /\ Len(fLines) = 2
    /\ fLines[1].json /\ fLines[1].ts < now - MaxAge
    /\ Ids(fToSend) = {2}

C16_FinalFlushAttempt ==
    [][(fFinal /\ fpc = "flushAll" /\ Len(spool) > 0) => fpc' # "stopped"]_vars

\* C26 (as claimed): a failed fetch of the collection config at the top of
\* the supervisor loop ends the agent only when the failure is persistent;
\* the process has not ended on a transient failure.
C26_TransientFetchRetried ==
    (spc = "exited" /\ exitVia = "fatal" /\ fetchErr # "none") =>
        fetchErr = "persistent"

\* C30 (as claimed): no producer of log entries sends on the shared log
\* channel after the consumer goroutine closed it; the process never ends
\* by the panic of such a send.
C30_NoSendOnClosedChannel ==
    [][(logsChanClosed /\ wk["journal"] = "waiting") => exitVia' # "panic"]_vars

\* The flusher is inside a flushAll call
InFlushAll == fpc \in {"flushAll", "send", "rewrite"}

Returns(q) == InCall(q) /\ lpc'[q] \in {"held", "refused"}

\* C2: single instance.  When a process calls AcquireLock after another
\* process's AcquireLock succeeded, no third process interfering and no file
\* removed, the call fails with ErrAlreadyRunning if and only if that other
\* process is still alive; and when it succeeds (the other process died
\* without removing any file) the PID file holds the new owner's PID.
C2_SingleInstance ==
    [][\A q \in Procs :
          (Returns(q) /\ solo[q] /\ holder[q] # 0 /\ owner = holder[q]) =>
              /\ (lres'[q] = "already") <=> alive[holder[q]]
              /\ (lres'[q] = "nil") =>
                     (pidExists' /\ pidData' = Itoa(PidOf(q)))]_vars

\* C2 witness: process 1 acquired the lock in a directory without a PID
\* file, process 2 was refused while 1 was alive, and after 1 was killed
\* process 3 acquired the lock and the file holds its PID.
C2_Witness ==
    /\ lres[1] = "nil" /\ lpc[1] = "dead"
    /\ lres[2] = "already" /\ holder[2] = 1 /\ solo[2]
    /\ lres[3] = "nil" /\ holder[3] = 1 /\ solo[3] /\ lpc[3] = "held"
    /\ pidExists /\ pidData = Itoa(PidOf(3))

\* C25 (as claimed): when AcquireLock returned ErrAlreadyRunning, the start
\* command exits with status 0 and leaves the PID file of the running
\* instance as it was.
C25_RefusedExitsZero ==
    [][\A q \in Procs :
          (lpc[q] = "refused" /\ lres[q] = "already" /\ lexit'[q] # "none") =>
              /\ lexit'[q] = "0"
              /\ pidExists' = pidExists
              /\ pidData' = pidData]_vars

C29_AtMostOneAcquires ==
    \A p, q \in Procs :
        (/\ p # q
         /\ \A r \in Procs \ {p, q} : lpc[r] = "idle"
         /\ alive[p]
         /\ alive[q]) =>
            ~(lres[p] = "nil" /\ lres[q] = "nil")

(***************************************************************************)
(* Claims about the AuthGuard                                              *)
(***************************************************************************)

\* C8 (as claimed): starting from a zero counter, 10 unauthorized responses
\* within 60 s deliver exactly one KeyCheck signal, after which the counter
\* is 0.  Stated for the moments at which the handling of the 10th response
\* has returned or can no longer return (the forwarder has already taken
\* its one signal).
C8_TenDeliverOne ==
    (runLen = errorThreshold /\ runSpan <= evaluationPeriod /\ (agpc = "idle" \/ fwd # "waiting"))
        => (runSignals = 1 /\ errorCount = 0)

\* C9 (as claimed): every 401 or 403 response received by the agent, from
\* the control endpoint and from the sinks alike, invokes HandleUnauthorized.
C9_EveryUnauthorizedHandled == unhandled = 0
\* C31 (as claimed): HandleUnauthorized always returns.  A call is stuck
\* for good when it is blocked in its send on the full keyCheckCh, the mutex
\* held, and the forwarder goroutine, the only receiver, has already taken
\* its one signal; no such state is reached.
C31_HandleUnauthorizedReturns == ~(agpc = "blocked" /\ fwd # "waiting")

\* C37 (as claimed): the forwarder sends Hibernate to the supervisor only
\* after a KeyCheck signal was received and the /check-key/ probe that followed
\* was rejected with 401 or 403; a probe that succeeds, or that fails with a
\* transport error, a timeout or another status, raises no Hibernate.
C37_HibernateOnlyOnRejectedKey ==
    fwd = "hibernate" => probeStatus \in {401, 403}

(***************************************************************************)
(* Claims about the supervisor                                             *)
(***************************************************************************)

\* C3 (as claimed): every drift of the server's collection config, the
\* second and later ones too, eventually leads to a rebuild of the services
\* from the new config (or the process has ended).  Stated for a drift seen
\* while the supervisor waits in its select and no journal reader runs.
C3_DriftLeadsToReload ==
    (drift /\ spc = "select" /\ wk["journal"] = "off") ~> (~drift \/ spc = "exited")

\* C36 (as claimed): once JournalCTLCollector.Stop has cancelled the reader's
\* context and waits for it, the reader goroutine terminates, with no further
\* journal entry needed, and Stop returns (or the process has ended).
C36_JournalStopReturns ==
    (wk["logs"] = "stopping" /\ wk["journal"] = "waiting") ~>
        (wk["journal"] = "done" \/ spc = "exited")

\* C4 (as claimed): once SIGINT or SIGTERM has been delivered, in whatever
\* state the supervisor is, the process eventually shuts down; no pending
\* event and no blocked worker prevents it.
C4_SignalLeadsToShutdown == (fw["sig"] = "sending") ~> (spc = "exited")

\* C5 (as claimed): the PID lock file is removed on every clean exit path:
\* Shutdown and Restart, running or hibernating, and the end of a dry run.
C5_CleanExitReleasesLock ==
    (spc = "exited" /\ exitVia \in {"Shutdown", "Restart", "DryRun"}) => ~lockHeld

\* C6 (as claimed): when ReleaseLock is called every worker of the cancelled
\* scope has terminated.
C6_WorkersJoinedAtRelease == spc = "released" => \A x \in Workers : Stopped(x)

\* C7 (as claimed): a restart file created while the process is alive (here:
\* after the services were first started) is never deleted without a
\* restart: only the RestartWatcher's tick, which raises the restart signal,
\* removes it.
C7_MarkerNeverDroppedSilently ==
    [][(marker = "fresh" /\ marker' = "none" /\ ctx # "none")
          => (wk["rw"] = "run" /\ wk'["rw"] \in {"done", "sending"})]_vars

\* C17 (as claimed): while the supervisor hibernates the spool keeps
\* draining: the flusher of the exporter, the only code that POSTs spool
\* records and removes them from the spool, is running during the
\* hibernation.
C17_SpoolDrainsInHibernation == spc = "hibernate" => wk["flusher"] = "run"

\* C18: in the hibernating state no metric collector and no log collector
\* of the cancelled scope is running, and the process is alive: it leaves
\* the state only when hibernate() returns or on a Shutdown or Restart event
\* that hibernate() itself answers with os.Exit(0), never by a panic or a
\* fatal error of a worker left over from the scope.
C18_HibernateQuiet ==
    /\ [](spc = "hibernate" => \A x \in {"logs", "metrics", "journal"} : Stopped(x))
    /\ [][(spc = "hibernate" /\ spc' # "hibernate") =>
            \/ spc' = "start"
            \/ spc' = "exited" /\ exitVia' \in {"Shutdown", "Restart"}]_vars

\* C18 witness: the supervisor hibernates after a scope in which the logs
\* and metrics workers ran, with the hibernation timer armed.
C18_Witness ==
    /\ spc = "hibernate"
    /\ timer = "armed"
    /\ wk["logs"] = "done"
    /\ wk["metrics"] = "done"

\* C19 (as claimed): on every fatal-error exit after the lock was acquired
\* (the initial key check rejected or failed, the collection config fetch
\* failed, the exporter could not be initialised) the PID lock file has been
\* removed before the process exits.
C19_FatalExitReleasesLock == (spc = "exited" /\ exitVia = "fatal") => ~lockHeld

(***************************************************************************)
(* Claims about the self-updater                                           *)
(***************************************************************************)

\* C20: if the SHA-256 of the bytes a run of Update downloaded differs from
\* the expected checksum, no rename onto the running binary's path happens in
\* that run and the file there is the one that was there before.
C20_MismatchNeverReplaces ==
    (uDownloaded # "none" /\ calculateFileSHA256(uDownloaded) # uExpected)
        => (~uRenamed /\ uTarget = "old")

\* C20 witness: the run downloaded a tampered binary while the manifest
\* named the released one; Update returned its checksum error, the
\* temporary file is removed and the running binary is in place.
C20_Witness ==
    /\ upc = "failed"
    /\ uDownloaded = "bad"
    /\ uManifest = "a1"
    /\ uExpected = "a1"
    /\ uNewFile = "absent"
    /\ uTarget = "old"

\* The positions at which a run of Update has returned
UpdEnded == {"done", "failed"}

IsNumericTriple(v) ==
    /\ Len(stringsSplit(v, ".")) = 3
    /\ \A i \in 1..3 : ~atoiErr(stringsSplit(v, ".")[i])

\* The numbers of a numeric triple
Triple(v) == [i \in 1..3 |-> atoi(stringsSplit(v, ".")[i])]

\* t is after c in the lexicographic order of (MAJOR, MINOR, PATCH)
LexGreater(t, c) ==
    \E i \in 1..3 : t[i] > c[i] /\ \A j \in 1..(i - 1) : t[j] = c[j]

\* C28 (as claimed): once the server's version is known, Update goes on to
\* the download if and only if the current version is "dev" or both
\* versions are numeric triples and the target is strictly greater in
\* lexicographic order; for an equal, older or malformed target the run
\* ends with nothing downloaded.
C28_NewerIffStrictlyGreater ==
    uVersion # <<>> =>
        LET newer == \/ uCurrent = Dev
                     \/ /\ IsNumericTriple(uCurrent)
                        /\ IsNumericTriple(uVersion)
                        /\ LexGreater(Triple(uVersion), Triple(uCurrent))
        IN  /\ targetVersionIsNewer(uCurrent, uVersion) <=> newer
            /\ ~newer => (upc = "done" /\ uDownloaded = "none")

(***************************************************************************)
(* Claims about the config hash                                            *)
(***************************************************************************)

\* Number of positions of s that hold x
Count(s, x) == Cardinality({i \in DOMAIN s : s[i] = x})

\* s and t hold the same elements the same number of times
SameMultiset(s, t) ==
    /\ Len(s) = Len(t)
    /\ \A i \in DOMAIN s : Count(s, s[i]) = Count(t, s[i])

\* C21 (as claimed): CollectionConfig.Hash gives the same value for two
\* configs whose metrics and log sources are equal as multisets, whatever
\* the order in which the entries and the label keys were received.
C21_HashOrderFree ==
    (/\ initialHash # <<>>
     /\ newHash # <<>>
     /\ SameMultiset(decodeConfig(cfgInitial).metrics, decodeConfig(cfgNew).metrics)
     /\ SameMultiset(cfgInitial.log_sources, cfgNew.log_sources))
        => newHash = initialHash

(***************************************************************************)
(* Claims about the log tailer                                             *)
(***************************************************************************)

\* C22 (as claimed): when every restart of the tail runner found the file
\* unchanged, grown, or shrunk below the stored size, no line of the file is
\* emitted twice and, while the runner runs, every line before the tailer's
\* offset was emitted exactly once: nothing is skipped, and a file that
\* shrank below the stored size is read from offset 0.
C22_EachLineOnce ==
    tCovered =>
        /\ \A i \in 1..MaxSize : tCount[i] <= 1
        /\ tpc = "running" => \A i \in 1..tOffset : tCount[i] = 1

\* The saved entries that name the file's inode with a size the file has
\* not shrunk below
MatchingPaths ==
    {p \in Paths : /\ posFile[p] # NoEntry
                   /\ posFile[p].inode = tInode
                   /\ posFile[p].size <= tSize}

\* C23: the start offset follows the three rules in order: the stored entry
\* of the file's own path when its inode is the file's and its stored size
\* is at most the current size; otherwise the stored offset of an entry
\* whose fingerprint matches; otherwise 0.  So a file renamed while the
\* agent was down resumes from the offset stored under its old path.
C23_StartOffsetRules ==
    [][(tpc = "down" /\ tpc' = "running") =>
          IF tPath \in MatchingPaths
          THEN tOffset' = posFile[tPath].offset
          ELSE IF MatchingPaths # {}
               THEN \E p \in MatchingPaths : tOffset' = posFile[p].offset
               ELSE tOffset' = 0]_vars

\* C23 witness: the runner was started on the file under its new path, for
\* which nothing is stored, and resumed from the offset stored under the
\* old path.
C23_Witness ==
    /\ tpc = "running"
    /\ tPath = "b.log"
    /\ posFile["b.log"] = NoEntry
    /\ posFile["a.log"].inode = tInode
    /\ posFile["a.log"].offset = MaxSize
    /\ tOffset = MaxSize
    /\ tCount = [i \in 1..MaxSize |-> 1]

(***************************************************************************)
(* Claims about the metric filter                                          *)
(***************************************************************************)

\* C24 (as claimed): a data point is emitted if and only if some included
\* spec has its name and a label map equal to its labels as a map: the same
\* key set and the same value for each key, empty-string values included.
C24_IncludedIffEqualSpec ==
    dpState # "pending" =>
        (dpState = "emitted" <=>
            \E i \in DOMAIN includedMetrics :
                /\ includedMetrics[i].name = dpName
                /\ DOMAIN includedMetrics[i].labels = DOMAIN dpLabels
                /\ \A k \in DOMAIN dpLabels : includedMetrics[i].labels[k] = dpLabels[k])

(***************************************************************************)
(* Claims about the log pipeline                                           *)
(***************************************************************************)

\* C32 (as claimed): when the scope has ended (the consumer has returned and
\* every runner has stopped and saved), every line at or before an offset
\* that positions.json holds has been appended to the log spool; what was
\* buffered in the channel at the cancellation is not lost.
C32_PersistedLinesAreSpooled ==
    (cons = "done" /\ \A r \in Runners : rnpc[r] = "stopped") =>
        \A e \in posDoc : \A i \in 1..e.offset : <<e.path, i>> \in lspool

\* C33 (as claimed): after all runners have stopped, positions.json holds
\* the latest offset of every tailed file: the offset each runner last
\* recorded for its own file.
C33_EveryLatestOffsetOnDisk ==
    (\A r \in Runners : rnpc[r] = "stopped") =>
        \A r \in Runners :
            rnPos[r][r] # NoPos => [path |-> r, offset |-> rnPos[r][r]] \in posDoc

(***************************************************************************)
(* Claims about rewriteSpool                                               *)
(***************************************************************************)

\* C35 (as claimed): during and after a rewriteSpool call the spool path
\* holds the complete old content or the complete new content; and when the
\* call has returned an error, path.tmp does not exist and the spool path
\* holds the old content.
C35_RewriteAtomic ==
    /\ rspc # "idle" => rsPath \in {rsOld, rsNew}
    /\ rspc = "failed" => (~rsTmpThere /\ rsPath = rsOld)

(***************************************************************************)
(* Claims about the CPU collector                                          *)
(***************************************************************************)

\* C39 (as claimed): the first Collect returns no points and stores the
\* baseline; a Collect that finds another number of cores than the call
\* before returns an error and no points; and a Collect that finds the same
\* number of cores as the call before, whatever happened earlier, returns
\* points and no error.
C39_CoreChangeInvalidatesOneCycle ==
    [][ (cpuTime' = cpuTime + 1 /\ cpuErr' # "times") =>
          /\ seenCores = 0 => (cpuPoints' = {} /\ cpuErr' = "nil" /\ lastStats' # <<>>)
          /\ (seenCores # 0 /\ seenCores # cores) =>
                (cpuPoints' = {} /\ cpuErr' = "mismatch")
          /\ (seenCores # 0 /\ seenCores = cores) =>
                (cpuPoints' # {} /\ cpuErr' = "nil")
      ]_vars

(***************************************************************************)
(* Claims about the ConfigWatcher's ticker                                 *)
(***************************************************************************)

====
